---- MODULE Spec2Model ----
(***************************************************************************)
(* Settlement reconciliation and posting engine of eseller_suite           *)
(* (amazon_process_settlement_report.py).                                  *)
(*                                                                         *)
(* Amounts are integers in mills (1/1000 of a currency unit), so that the  *)
(* 0.01 noise threshold (10 mills) separates values on both sides of it.   *)
(* Exchange rates are integers in hundredths (100 = rate 1.0).  A base     *)
(* currency value amount * rate is therefore in units of 1/100000.         *)
(* Text fields (transaction-type, amount-description, amount-type) hold    *)
(* the value the code compares after strip()/lower()/upper().              *)
(***************************************************************************)
EXTENDS Integers, Sequences, FiniteSets, TLC

VARIABLES
    rows,       \* SpecBuild: the rows of the report handed to build_je
    rate,       \* SpecBuild: what fx_rate returns for a non-USD settlement currency
    bje,        \* SpecBuild: what build_je gave ("pending" before the call, "none" for
                \* None, "built" with the lines of the document, "raised"), and
                \* the first_pass argument of the call
    remote,     \* the marketplace: report id -> the rows fetch_settlement_rows returns
    invoices,   \* tabSales Invoice: sequence of invoices and credit notes, name = index
    jes,        \* tabJournal Entry: sequence of postings, name = index
    queue,      \* background jobs enqueued and not yet run (Journal Entry names)
    runs,       \* per worker: the process_settlements invocation it executes
    starts,     \* number of process_settlements invocations started so far
    retry,      \* SpecRetry: one call of an operation wrapped by _retry_locked
    fx_call     \* SpecFx: one call of fx_rate(from_ccy, posting_date)

vars == <<rows, rate, bje, remote, invoices, jes, queue, runs, starts, retry, fx_call>>

----------------------------------------------------------------------------
(* Bounds of the model *)

MaxRows == 3
MaxStarts == 2

----------------------------------------------------------------------------
(* Program constants *)

NoiseThreshold == 10       \* 0.01 in mills
SpecialFeeMin == 9         \* 0.009 in mills
RateOne == 100             \* exchange rate 1.0 in hundredths
CentUnits == 1000          \* 0.01 in units of 1/100000 (what round(x, 2) rounds to)
Tries == 12                \* _retry_locked(tries=12)
Delay == 2000              \* _retry_locked(delay=2.0), in milliseconds
DelayCap == 15000          \* min(current_delay * 1.5, 15.0), in milliseconds
MaxRetries == 3            \* fx_rate(max_retries=3)
FallbackDays == 7          \* fx_rate(fallback_days=7)
FallbackRetries == 1       \* max_retries=1 of the recursive call
Threshold == 10            \* 10 ** -(3 + 1) in units of 1/100000

SALES_TYPES == {"order", "order_retrocharge"}
REFUND_TYPES == {"refund"}

REIMBURSEMENT_WHITE_LIST ==
    {"REVERSAL_REIMBURSEMENT", "FREE_REPLACEMENT_REFUND_ITEMS", "WAREHOUSE_DAMAGE",
     "WAREHOUSE_LOST", "COMPENSATED_CLAWBACK", "MISSING_FROM_INBOUND_CLAWBACK",
     "REFUNDCOMMISSION", "SHIPPINGCHARGEBACK", "MISSING_FROM_INBOUND"}

FEE_ACCOUNT_MAP ==
    {"STORAGE FEE", "STORAGERENEWALBILLING", "FBA INBOUND PLACEMENT SERVICE FEE",
     "INBOUND TRANSPORTATION FEE", "REMOVALCOMPLETE", "COMPENSATED_CLAWBACK",
     "DISPOSALCOMPLETE", "LIQUIDATIONSBROKERAGEFEE"}

\* the texts of the model that contain the substring REIMBURSEMENT
ContainsReimbursement == {"REVERSAL_REIMBURSEMENT", "FBA INVENTORY REIMBURSEMENT"}

----------------------------------------------------------------------------
(* Arithmetic helpers *)

Abs(x) == IF x < 0 THEN -x ELSE x

Min(a, b) == IF a <= b THEN a ELSE b

\* round(v, 2) of a value v given in units of 1/100000; the result is in
\* mills (a multiple of 10).  Ties go to the even cent, as Python's round.
Round2(v) ==
    LET q == v \div CentUnits
        rem == v % CentUnits
        up == IF 2 * rem > CentUnits THEN 1
              ELSE IF 2 * rem < CentUnits THEN 0
              ELSE IF q % 2 = 0 THEN 0 ELSE 1
    IN (q + up) * 10

RECURSIVE SumAmounts(_)
SumAmounts(s) == IF s = <<>> THEN 0 ELSE Head(s).amount + SumAmounts(Tail(s))


----------------------------------------------------------------------------
(* The ledger: Sales Invoices and credit notes (tabSales Invoice) *)

\* names of the invoices of the ledger inv
Names(inv) == 1..Len(inv)

\* the name in S with the greatest posting_date (greatest name among equals), 0 if none
Latest(inv, S) ==
    IF S = {} THEN 0
    ELSE CHOOSE n \in S : \A m \in S :
            \/ inv[m].posting_date < inv[n].posting_date
            \/ (inv[m].posting_date = inv[n].posting_date /\ m <= n)

get_sales_invoice(inv, order_id) ==
    Latest(inv, {n \in Names(inv) : /\ inv[n].order = order_id
                                    /\ inv[n].docstatus = 1
                                    /\ ~inv[n].is_return})

\* only the truth value of the result is used by the callers
get_open_sales_invoice(inv, order_id) ==
    LET S == {n \in Names(inv) : /\ inv[n].order = order_id
                                 /\ inv[n].docstatus = 1
                                 /\ inv[n].outstanding > 0}
    IN IF S = {} THEN 0 ELSE CHOOSE n \in S : \A m \in S : n <= m

\* mutant: the names by posting_date desc, name desc
RECURSIVE SortDesc(_, _)
SortDesc(inv, S) ==
    IF S = {} THEN <<>>
    ELSE LET n == CHOOSE x \in S : \A m \in S :
                    \/ inv[x].posting_date > inv[m].posting_date
                    \/ (inv[x].posting_date = inv[m].posting_date /\ x >= m)
         IN <<n>> \o SortDesc(inv, S \ {n})

\* the sequence of the names in S by posting_date asc, name asc
RECURSIVE SortAsc(_, _)
SortAsc(inv, S) ==
    IF S = {} THEN <<>>
    ELSE LET n == CHOOSE x \in S : \A m \in S :
                    \/ inv[x].posting_date < inv[m].posting_date
                    \/ (inv[x].posting_date = inv[m].posting_date /\ x <= m)
         IN <<n>> \o SortAsc(inv, S \ {n})

get_open_credit_notes_for_order(inv, order_id) ==
    SortAsc(inv, {n \in Names(inv) : /\ inv[n].order = order_id
                                     /\ inv[n].is_return
                                     /\ inv[n].docstatus = 1
                                     /\ inv[n].outstanding < -NoiseThreshold})

\* mutant: the lookup for an existing credit note finds none
ExistingCreditNoteNone(inv, si_name, order_id, report_id) == 0

\* the credit note create_credit_note_for_refund finds for (si, order, report), 0 if none
ExistingCreditNote(inv, si_name, order_id, report_id) ==
    LET S == {n \in Names(inv) : /\ inv[n].return_against = si_name
                                 /\ inv[n].order = order_id
                                 /\ inv[n].docstatus = 1
                                 /\ inv[n].is_return
                                 /\ inv[n].report = report_id}
    IN IF S = {} THEN 0 ELSE CHOOSE n \in S : \A m \in S : n <= m

\* mutant: the name of the sale invoice is returned as the credit note's
create_credit_note_returns_invoice(inv, si_name, post_dt, order_id, order_rows, report_id, raises, cn_self) ==
    [name |-> si_name, inv |-> inv]

\* mutant: the credit note is created without the lookup for an existing one
create_credit_note_without_lookup(inv, si_name, post_dt, order_id, order_rows, report_id, raises, cn_self) ==
    LET refund_rows == SelectSeq(order_rows, LAMBDA r : r.tt = "refund")
        cn == [order |-> order_id, is_return |-> TRUE, docstatus |-> 1,
               outstanding |-> IF cn_self THEN SumAmounts(refund_rows) ELSE 0,
               return_against |-> si_name, report |-> report_id,
               posting_date |-> post_dt, items_match |-> FALSE]
    IN IF raises \/ inv[si_name].is_return \/ refund_rows = <<>> \/ ~inv[si_name].items_match
       THEN [name |-> 0, inv |-> inv]
       ELSE [name |-> Len(inv) + 1, inv |-> Append(inv, cn)]

\* create_credit_note_for_refund: [name |-> the credit note or 0 (None), inv |-> the ledger after].
\* raises: an exception is raised inside the try block (rolled back, logged, None).
\* cn_self: the host books the credit note's amount as its own (negative)
\*          outstanding; otherwise the credit note is created with outstanding 0.
create_credit_note_for_refund(inv, si_name, post_dt, order_id, order_rows, report_id, raises, cn_self) ==
    LET refund_rows == SelectSeq(order_rows, LAMBDA r : r.tt = "refund")
        computed_refund_amount == -SumAmounts(refund_rows)
        existing == ExistingCreditNote(inv, si_name, order_id, report_id)
        cn == [order |-> order_id, is_return |-> TRUE, docstatus |-> 1,
               outstanding |-> IF cn_self THEN -computed_refund_amount ELSE 0,
               return_against |-> si_name, report |-> report_id,
               posting_date |-> post_dt, items_match |-> FALSE]
    IN IF raises \/ inv[si_name].is_return THEN [name |-> 0, inv |-> inv]
       ELSE IF refund_rows = <<>> THEN [name |-> 0, inv |-> inv]
       ELSE IF existing # 0 THEN [name |-> existing, inv |-> inv]
       ELSE IF ~inv[si_name].items_match THEN [name |-> 0, inv |-> inv]
       ELSE [name |-> Len(inv) + 1, inv |-> Append(inv, cn)]

----------------------------------------------------------------------------
(* Order Aggregator (build_je, allocate_late_documents_for_settlement) *)

\* the keys of order_groups, in insertion order
RECURSIVE OrderKeys(_, _)
OrderKeys(rs, seen) ==
    IF rs = <<>> THEN <<>>
    ELSE LET r == Head(rs)
         IN IF r.tt \in (SALES_TYPES \cup REFUND_TYPES) /\ r.oid # "" /\ r.oid \notin seen
            THEN <<r.oid>> \o OrderKeys(Tail(rs), seen \cup {r.oid})
            ELSE OrderKeys(Tail(rs), seen)

order_groups(rs, order_id) ==
    SelectSeq(rs, LAMBDA r : r.tt \in (SALES_TYPES \cup REFUND_TYPES) /\ r.oid = order_id)

\* mutant: the order's rows netted into one figure (sales and refunds together)
sales_total_netted(rs, order_id) == SumAmounts(order_groups(rs, order_id))

sales_total(rs, order_id) ==
    SumAmounts(SelectSeq(order_groups(rs, order_id), LAMBDA r : r.tt \in SALES_TYPES))

\* mutant: the refund sum keeps its sign
refund_total_signed(rs, order_id) ==
    SumAmounts(SelectSeq(order_groups(rs, order_id), LAMBDA r : r.tt \in REFUND_TYPES))

refund_total(rs, order_id) ==
    -SumAmounts(SelectSeq(order_groups(rs, order_id), LAMBDA r : r.tt \in REFUND_TYPES))

\* the keys of sales_totals / refund_totals, in insertion order
sales_totals(rs) ==
    SelectSeq(OrderKeys(rs, {}), LAMBDA o : Abs(sales_total(rs, o)) >= NoiseThreshold)

refund_totals(rs) ==
    SelectSeq(OrderKeys(rs, {}), LAMBDA o : Abs(refund_total(rs, o)) >= NoiseThreshold)

RECURSIVE total_sales_native(_, _)
total_sales_native(keys, rs) ==
    IF keys = <<>> THEN 0
    ELSE sales_total(rs, Head(keys)) + total_sales_native(Tail(keys), rs)

RECURSIVE total_refund_native(_, _)
total_refund_native(keys, rs) ==
    IF keys = <<>> THEN 0
    ELSE refund_total(rs, Head(keys)) + total_refund_native(Tail(keys), rs)

order_net_native(rs) ==
    total_sales_native(sales_totals(rs), rs) - total_refund_native(refund_totals(rs), rs)

----------------------------------------------------------------------------
(* Posting Builder: build_je, first pass *)

looks_like_net(r) ==
    /\ \/ r.tt = "transfer"
       \/ r.desc \in {"AMAZON PROCEEDS", "TRANSFER"}
       \/ (r.tt = "" /\ r.desc = "")
    /\ r.oid = ""

\* the net transfer row: the first row that looks like the net line and has
\* abs(amount) > 0.0001; <<>> if there is none
transfer_row(rs) == SelectSeq(rs, LAMBDA r : looks_like_net(r) /\ r.amount # 0)

native_total(rs) == IF transfer_row(rs) = <<>> THEN 0 ELSE transfer_row(rs)[1].amount

settlement_ccy(rs) == IF transfer_row(rs) = <<>> THEN "USD" ELSE transfer_row(rs)[1].currency

\* `A or B or C and amount > 0`: the sign test binds to the amount-type test only
reimb_native(rs) ==
    SumAmounts(SelectSeq(rs, LAMBDA r :
        \/ r.desc \in REIMBURSEMENT_WHITE_LIST
        \/ r.desc \in ContainsReimbursement
        \/ (r.atype \in ContainsReimbursement /\ r.amount > 0)))

IsSpecialFee(r) == r.amount < 0 /\ r.oid = "" /\ r.desc \in FEE_ACCOUNT_MAP

\* the keys of special_fee_native, in insertion order
RECURSIVE SpecialKeys(_, _)
SpecialKeys(rs, seen) ==
    IF rs = <<>> THEN <<>>
    ELSE LET r == Head(rs)
         IN IF IsSpecialFee(r) /\ r.desc \notin seen
            THEN <<r.desc>> \o SpecialKeys(Tail(rs), seen \cup {r.desc})
            ELSE SpecialKeys(Tail(rs), seen)

special_fee_native(rs, d) ==
    -SumAmounts(SelectSeq(rs, LAMBDA r : IsSpecialFee(r) /\ r.desc = d))

\* fx_rate(settlement_ccy, post_dt): 1.0 for USD, else the rate fx the lookup gave
FxRate(ccy, fx) == IF ccy = "USD" THEN RateOne ELSE fx

special_fee_usd(rs, d, rt) == Round2(special_fee_native(rs, d) * rt)

RECURSIVE special_fee_total_usd(_, _, _)
special_fee_total_usd(keys, rs, rt) ==
    IF keys = <<>> THEN 0
    ELSE special_fee_usd(rs, Head(keys), rt) + special_fee_total_usd(Tail(keys), rs, rt)

usd_total(rs, rt) == Round2(native_total(rs) * rt)
order_net_usd(rs, rt) == Round2(order_net_native(rs) * rt)
reimb_usd(rs, rt) == Round2(reimb_native(rs) * rt)

\* mutant: the special fees are not taken out of the remainder
fees_usd_with_special(rs, rt) ==
    Round2(((order_net_usd(rs, rt) + reimb_usd(rs, rt)) - usd_total(rs, rt)) * RateOne)

\* mutant: the remainder leaves the reimbursements out
fees_usd_without_reimbursements(rs, rt) ==
    Round2((order_net_usd(rs, rt)
            - (usd_total(rs, rt) + special_fee_total_usd(SpecialKeys(rs, {}), rs, rt))) * RateOne)

fees_usd(rs, rt) ==
    Round2(((order_net_usd(rs, rt) + reimb_usd(rs, rt))
            - (usd_total(rs, rt) + special_fee_total_usd(SpecialKeys(rs, {}), rs, rt))) * RateOne)

\* a Journal Entry Account row; debit and credit are the *_in_account_currency fields
Line(account, debit, credit, exchange_rate, party_type, order_id, ref, remark) ==
    [account |-> account, debit |-> debit, credit |-> credit,
     exchange_rate |-> exchange_rate, party_type |-> party_type,
     party |-> IF party_type = "" THEN "" ELSE "customer", order |-> order_id,
     ref |-> ref, is_advance |-> "", user_remark |-> remark]

clearing_line(rs, rt) ==
    IF native_total(rs) > 0
    THEN Line("clearing", native_total(rs), 0, rt, "", "", 0, "")
    ELSE Line("clearing", 0, -native_total(rs), rt, "", "", 0, "")

\* Sales pass: one AR credit line per key of sales_totals
RECURSIVE SalesPass(_, _, _, _)
SalesPass(keys, inv, rs, rt) ==
    IF keys = <<>> THEN <<>>
    ELSE LET order_id == Head(keys)
             si_name == get_sales_invoice(inv, order_id)
             ref == IF si_name # 0 /\ get_open_sales_invoice(inv, order_id) # 0
                    THEN si_name ELSE 0
         IN <<Line("debtors", 0, sales_total(rs, order_id), rt, "Customer", order_id, ref, "")>>
            \o SalesPass(Tail(keys), inv, rs, rt)

\* mutant: a failing credit note creation ends the refund pass
RECURSIVE RefundPassAborting(_, _, _, _, _, _, _, _)
RefundPassAborting(keys, inv, rs, rt, rpt_id, post_dt, excCN, cn_self) ==
    IF keys = <<>> \/ Head(keys) \in excCN THEN [lines |-> <<>>, inv |-> inv]
    ELSE LET order_id == Head(keys)
             si_name == get_sales_invoice(inv, order_id)
             cn == IF si_name # 0
                   THEN create_credit_note_for_refund(inv, si_name, post_dt, order_id,
                            order_groups(rs, order_id), rpt_id, FALSE, cn_self)
                   ELSE [name |-> 0, inv |-> inv]
             rest == RefundPassAborting(Tail(keys), cn.inv, rs, rt, rpt_id, post_dt,
                                        excCN, cn_self)
         IN [lines |-> <<Line("debtors", refund_total(rs, order_id), 0, rt, "Customer",
                              order_id, cn.name, "")>> \o rest.lines,
             inv |-> rest.inv]

\* Refund pass: one AR debit line per key of refund_totals, creating the
\* credit note on demand; [lines, inv |-> the ledger after]
RECURSIVE RefundPass(_, _, _, _, _, _, _, _)
RefundPass(keys, inv, rs, rt, rpt_id, post_dt, excCN, cn_self) ==
    IF keys = <<>> THEN [lines |-> <<>>, inv |-> inv]
    ELSE LET order_id == Head(keys)
             order_rows == order_groups(rs, order_id)
             si_name == get_sales_invoice(inv, order_id)
             refund_rows == SelectSeq(order_rows, LAMBDA r : r.tt \in REFUND_TYPES)
             cn == IF si_name # 0 /\ refund_rows # <<>>
                   THEN create_credit_note_for_refund(inv, si_name, post_dt, order_id,
                            refund_rows, rpt_id, order_id \in excCN, cn_self)
                   ELSE [name |-> 0, inv |-> inv]
             rest == RefundPass(Tail(keys), cn.inv, rs, rt, rpt_id, post_dt, excCN, cn_self)
         IN [lines |-> <<Line("debtors", refund_total(rs, order_id), 0, rt, "Customer",
                              order_id, cn.name, "")>> \o rest.lines,
             inv |-> rest.inv]

reimbursement_lines(rs, rt) ==
    IF Abs(reimb_usd(rs, rt)) >= NoiseThreshold
    THEN IF reimb_usd(rs, rt) > 0
         THEN <<Line("reimbursements", 0, reimb_usd(rs, rt), RateOne, "", "", 0, "")>>
         ELSE <<Line("reimbursements", -reimb_usd(rs, rt), 0, RateOne, "", "", 0, "")>>
    ELSE <<>>

RECURSIVE special_fee_lines(_, _, _)
special_fee_lines(keys, rs, rt) ==
    IF keys = <<>> THEN <<>>
    ELSE LET amt_usd == special_fee_usd(rs, Head(keys), rt)
         IN (IF amt_usd < SpecialFeeMin THEN <<>>
             ELSE <<Line("fee", amt_usd, 0, RateOne, "", "", 0, Head(keys))>>)
            \o special_fee_lines(Tail(keys), rs, rt)

misc_fee_lines(rs, rt) ==
    IF Abs(fees_usd(rs, rt)) >= NoiseThreshold
    THEN IF fees_usd(rs, rt) > 0
         THEN <<Line("misc_fees", fees_usd(rs, rt), 0, RateOne, "", "", 0, "")>>
         ELSE <<Line("misc_fees", 0, -fees_usd(rs, rt), RateOne, "", "", 0, "")>>
    ELSE <<>>

\* sum(debit_in_account_currency * exchange_rate), in units of 1/100000
RECURSIVE total_debit(_)
total_debit(lines) ==
    IF lines = <<>> THEN 0
    ELSE Head(lines).debit * Head(lines).exchange_rate + total_debit(Tail(lines))

RECURSIVE total_credit(_)
total_credit(lines) ==
    IF lines = <<>> THEN 0
    ELSE Head(lines).credit * Head(lines).exchange_rate + total_credit(Tail(lines))

\* mutant: the rounding amount booked on the side of the excess
rounding_line_wrong_side(all_lines) ==
    LET difference == Round2(total_debit(all_lines) - total_credit(all_lines))
    IN IF Abs(difference) > 0
       THEN IF difference > 0
            THEN <<Line("round_off", Abs(difference), 0, RateOne, "", "", 0,
                        "Rounding adjustment")>>
            ELSE <<Line("round_off", 0, Abs(difference), RateOne, "", "", 0,
                        "Rounding adjustment")>>
       ELSE <<>>

\* the rounding adjustment line for the lines built so far (<<>> if balanced)
rounding_line(all_lines) ==
    LET difference == Round2(total_debit(all_lines) - total_credit(all_lines))
    IN IF Abs(difference) > 0
       THEN IF difference > 0
            THEN <<Line("round_off", 0, Abs(difference), RateOne, "", "", 0,
                        "Rounding adjustment")>>
            ELSE <<Line("round_off", Abs(difference), 0, RateOne, "", "", 0,
                        "Rounding adjustment")>>
       ELSE <<>>

\* mutant: every unreferenced party row is flagged as advance
FlagRowAnyUnreferenced(row) ==
    IF row.party_type # "" /\ row.party # "" /\ row.ref = 0
    THEN [row EXCEPT !.is_advance = "Yes"]
    ELSE [row EXCEPT !.is_advance = "No"]

\* _flag_unallocated_as_advance, on one row
FlagRow(row) ==
    LET has_party == row.party_type # "" /\ row.party # ""
        has_ref == row.ref # 0
    IN IF ~has_party \/ has_ref
       THEN IF row.is_advance \notin {"", "No"} THEN [row EXCEPT !.is_advance = "No"] ELSE row
       ELSE IF row.party_type = "Customer"
            THEN [row EXCEPT !.is_advance = IF row.credit > 0 THEN "Yes" ELSE "No"]
       ELSE IF row.party_type = "Supplier"
            THEN [row EXCEPT !.is_advance = IF row.debit > 0 THEN "Yes" ELSE "No"]
       ELSE [row EXCEPT !.is_advance = "No"]

_flag_unallocated_as_advance(lines) == [i \in DOMAIN lines |-> FlagRow(lines[i])]

\* mutant: je_lines = ar_lines + non_ar_lines
build_je_ar_lines_first(inv, rpt_id, post_dt, rs, fx, excCN, cn_self) ==
    IF native_total(rs) = 0 THEN [st |-> "none", lines |-> <<>>, inv |-> inv]
    ELSE LET rt == FxRate(settlement_ccy(rs), fx)
             refunds == RefundPass(refund_totals(rs), inv, rs, rt, rpt_id, post_dt,
                                   excCN, cn_self)
             ar_lines == SalesPass(sales_totals(rs), inv, rs, rt) \o refunds.lines
             non_ar_lines == <<clearing_line(rs, rt)>>
                             \o reimbursement_lines(rs, rt)
                             \o special_fee_lines(SpecialKeys(rs, {}), rs, rt)
                             \o misc_fee_lines(rs, rt)
             all_lines == non_ar_lines \o ar_lines
             je_lines == ar_lines \o (non_ar_lines \o rounding_line(all_lines))
         IN [st |-> "built", lines |-> _flag_unallocated_as_advance(je_lines),
             inv |-> refunds.inv]

\* build_je(repo, report, rows, first_pass = True):
\* [st |-> "none" (None returned) or "built", lines |-> the accounts of the
\*  document, inv |-> the ledger after].
\* fx: what fx_rate gives for a non-USD settlement currency; excCN: the orders
\* whose credit note creation raises; cn_self: see create_credit_note_for_refund.
build_je(inv, rpt_id, post_dt, rs, fx, excCN, cn_self) ==
    IF native_total(rs) = 0 THEN [st |-> "none", lines |-> <<>>, inv |-> inv]
    ELSE LET rt == FxRate(settlement_ccy(rs), fx)
             refunds == RefundPass(refund_totals(rs), inv, rs, rt, rpt_id, post_dt,
                                   excCN, cn_self)
             ar_lines == SalesPass(sales_totals(rs), inv, rs, rt) \o refunds.lines
             non_ar_lines == <<clearing_line(rs, rt)>>
                             \o reimbursement_lines(rs, rt)
                             \o special_fee_lines(SpecialKeys(rs, {}), rs, rt)
                             \o misc_fee_lines(rs, rt)
             all_lines == non_ar_lines \o ar_lines
             je_lines == (non_ar_lines \o rounding_line(all_lines)) \o ar_lines
         IN [st |-> "built", lines |-> _flag_unallocated_as_advance(je_lines),
             inv |-> refunds.inv]

----------------------------------------------------------------------------
(* Allocation Engine: allocate_late_documents_for_settlement *)

\* report ids of the model one of which is a proper prefix of the other
ProperPrefixes == {<<"R1", "R12">>}

\* cheque_no LIKE 'rpt_id%'
LikePrefix(rpt_id, cheque_no) == cheque_no = rpt_id \/ <<rpt_id, cheque_no>> \in ProperPrefixes

is_already_referenced_by_report(js, inv, rpt_id, reference_name) ==
    /\ reference_name # 0
    /\ inv[reference_name].order # ""
    /\ \E j \in DOMAIN js :
          /\ js[j].docstatus = 1
          /\ LikePrefix(rpt_id, js[j].cheque_no)
          /\ \E i \in DOMAIN js[j].accounts :
                /\ js[j].accounts[i].ref = reference_name
                /\ js[j].accounts[i].order = inv[reference_name].order

\* SUM(credit_in_account_currency) - SUM(debit_in_account_currency) over the
\* rows of the posting that carry the order id and a Sales Invoice reference
RECURSIVE ReferencedCreditMinusDebit(_, _)
ReferencedCreditMinusDebit(accounts, order_id) ==
    IF accounts = <<>> THEN 0
    ELSE (IF Head(accounts).order = order_id /\ Head(accounts).ref # 0
          THEN Head(accounts).credit - Head(accounts).debit ELSE 0)
         + ReferencedCreditMinusDebit(Tail(accounts), order_id)

\* already_applied of the sales loop: SUM(credit) - SUM(debit) over the rows of
\* the posting with the order id and a reference
already_applied_sales(accounts, order_id) == ReferencedCreditMinusDebit(accounts, order_id)

\* already_applied of the refund loop: SUM(debit) - SUM(credit) over the same rows
already_applied_refunds(accounts, order_id) == -ReferencedCreditMinusDebit(accounts, order_id)

\* mutant: the lookup of the row does not ask for an empty reference
OrderLineAnyReference(accounts, order_id, side) ==
    LET S == {i \in DOMAIN accounts :
                /\ accounts[i].order = order_id
                /\ IF side = "credit" THEN accounts[i].credit > 0 ELSE accounts[i].debit > 0}
    IN IF S = {} THEN 0 ELSE CHOOSE i \in S : \A k \in S : i <= k

\* the unreferenced row of the posting for the order with credit > 0
\* (side = "credit") or debit > 0 (side = "debit"); 0 if none
UnreferencedLine(accounts, order_id, side) ==
    LET S == {i \in DOMAIN accounts :
                /\ accounts[i].order = order_id
                /\ accounts[i].ref = 0
                /\ IF side = "credit" THEN accounts[i].credit > 0 ELSE accounts[i].debit > 0}
    IN IF S = {} THEN 0 ELSE CHOOSE i \in S : \A k \in S : i <= k

\* mutant: the update names the order instead of the row, so that every row
\* of the order in the posting gets the reference
SetReferenceAllOrderRows(js, je_name, i, doc) ==
    [js EXCEPT ![je_name].accounts =
        [k \in DOMAIN @ |-> IF @[k].order = @[i].order THEN [@[k] EXCEPT !.ref = doc]
                            ELSE @[k]]]

\* frappe.db.set_value(row, {reference_type, reference_name})
SetReference(js, je_name, i, doc) == [js EXCEPT ![je_name].accounts[i].ref = doc]

\* one iteration of the sales allocation loop; excSet: the orders whose
\* set_value raises (rolled back and logged)
SalesAllocation(js, inv, je_name, rpt_id, rs, order_id, excSet) ==
    LET accounts == js[je_name].accounts
        net_to_apply == sales_total(rs, order_id) - already_applied_sales(accounts, order_id)
        si_name == get_sales_invoice(inv, order_id)
        apply == Min(net_to_apply, inv[si_name].outstanding)
        line_name == UnreferencedLine(accounts, order_id, "credit")
    IN IF \/ Abs(sales_total(rs, order_id)) < NoiseThreshold
          \/ net_to_apply < NoiseThreshold
          \/ si_name = 0
          \/ is_already_referenced_by_report(js, inv, rpt_id, si_name)
          \/ apply < NoiseThreshold
          \/ line_name = 0
          \/ order_id \in excSet
       THEN js
       ELSE SetReference(js, je_name, line_name, si_name)

RECURSIVE SalesAllocationLoop(_, _, _, _, _, _, _)
SalesAllocationLoop(keys, js, inv, je_name, rpt_id, rs, excSet) ==
    IF keys = <<>> THEN js
    ELSE SalesAllocationLoop(Tail(keys),
            SalesAllocation(js, inv, je_name, rpt_id, rs, Head(keys), excSet),
            inv, je_name, rpt_id, rs, excSet)

\* "Allocate residual to existing open CNs": the loop over cns
RECURSIVE ResidualLoop(_, _, _, _, _, _, _, _)
ResidualLoop(cns, js, inv, je_name, rpt_id, order_id, refund_to_apply, excSet) ==
    IF cns = <<>> THEN js
    ELSE LET cn == Head(cns)
             apply == Min(refund_to_apply, Abs(inv[cn].outstanding))
             line_name == UnreferencedLine(js[je_name].accounts, order_id, "debit")
         IN IF \/ is_already_referenced_by_report(js, inv, rpt_id, cn)
               \/ apply < NoiseThreshold
               \/ line_name = 0
            THEN ResidualLoop(Tail(cns), js, inv, je_name, rpt_id, order_id,
                              refund_to_apply, excSet)
            ELSE LET js1 == IF order_id \in excSet THEN js
                            ELSE SetReference(js, je_name, line_name, cn)
                 IN IF refund_to_apply - apply < NoiseThreshold THEN js1
                    ELSE ResidualLoop(Tail(cns), js1, inv, je_name, rpt_id, order_id,
                                      refund_to_apply - apply, excSet)

\* one iteration of the refund allocation loop: [js, inv]
RefundAllocation(js, inv, je_name, rpt_id, rs, post_dt, order_id, excCN, excSet, cn_self) ==
    LET accounts == js[je_name].accounts
        refund_to_apply == refund_total(rs, order_id)
                           - already_applied_refunds(accounts, order_id)
        si_name == get_sales_invoice(inv, order_id)
        refund_rows == SelectSeq(order_groups(rs, order_id), LAMBDA r : r.tt \in REFUND_TYPES)
        cn == IF si_name # 0 /\ refund_rows # <<>>
              THEN create_credit_note_for_refund(inv, si_name, post_dt, order_id,
                       refund_rows, rpt_id, order_id \in excCN, cn_self)
              ELSE [name |-> 0, inv |-> inv]
        apply == Min(refund_to_apply, Abs(cn.inv[cn.name].outstanding))
        line_name == UnreferencedLine(accounts, order_id, "debit")
        allocated == /\ cn.name # 0
                     /\ ~is_already_referenced_by_report(js, cn.inv, rpt_id, cn.name)
                     /\ apply > NoiseThreshold
                     /\ line_name # 0
        js1 == IF allocated /\ order_id \notin excSet
               THEN SetReference(js, je_name, line_name, cn.name) ELSE js
        rest == IF allocated THEN refund_to_apply - apply ELSE refund_to_apply
    IN IF Abs(refund_total(rs, order_id)) < NoiseThreshold \/ refund_to_apply < NoiseThreshold
       THEN [js |-> js, inv |-> inv]
       ELSE IF allocated /\ rest < NoiseThreshold
       THEN [js |-> js1, inv |-> cn.inv]
       ELSE [js |-> ResidualLoop(get_open_credit_notes_for_order(cn.inv, order_id), js1,
                                 cn.inv, je_name, rpt_id, order_id, rest, excSet),
             inv |-> cn.inv]

RECURSIVE RefundAllocationLoop(_, _, _, _, _, _, _, _, _, _)
RefundAllocationLoop(keys, js, inv, je_name, rpt_id, rs, post_dt, excCN, excSet, cn_self) ==
    IF keys = <<>> THEN [js |-> js, inv |-> inv]
    ELSE LET one == RefundAllocation(js, inv, je_name, rpt_id, rs, post_dt, Head(keys),
                                     excCN, excSet, cn_self)
         IN RefundAllocationLoop(Tail(keys), one.js, one.inv, je_name, rpt_id, rs, post_dt,
                                 excCN, excSet, cn_self)

\* the confirmed postings whose cheque_no is the report id
ConfirmedFor(js, rpt_id) ==
    {j \in DOMAIN js : js[j].cheque_no = rpt_id /\ js[j].docstatus = 1}

\* allocate_late_documents_for_settlement, on the confirmed posting je_name
\* the lookup by cheque_no returned (0: none): [js, inv]
allocate_late_documents_for_settlement(js, inv, je_name, rpt_id, rs, post_dt, excCN, excSet, cn_self) ==
    IF je_name = 0 THEN [js |-> js, inv |-> inv]
    ELSE RefundAllocationLoop(refund_totals(rs),
            SalesAllocationLoop(sales_totals(rs), js, inv, je_name, rpt_id, rs, excSet),
            inv, je_name, rpt_id, rs, post_dt, excCN, excSet, cn_self)

\* mutant: every report is taken for a first pass
first_pass_always(js, rpt_id) == TRUE

\* not frappe.db.exists("Journal Entry", {"cheque_no": rpt_id, "docstatus": 1})
first_pass(js, rpt_id) == ConfirmedFor(js, rpt_id) = {}

\* mutant: the late pass runs without the test for the net transfer row
build_je_later_pass_unanchored(js, inv, je_name, rpt_id, post_dt, rs, excCN, excSet, cn_self) ==
    allocate_late_documents_for_settlement(js, inv, je_name, rpt_id, rs, post_dt,
                                           excCN, excSet, cn_self)

\* build_je(repo, report, rows, first_pass = False): returns None; [js, inv]
build_je_later_pass(js, inv, je_name, rpt_id, post_dt, rs, excCN, excSet, cn_self) ==
    IF native_total(rs) = 0 THEN [js |-> js, inv |-> inv]
    ELSE allocate_late_documents_for_settlement(js, inv, je_name, rpt_id, rs, post_dt,
                                                excCN, excSet, cn_self)

----------------------------------------------------------------------------
(* Inputs of the model *)

Orders == {"O1", "O2"}

\* exchange rates fx_rate may return for CAD -> USD, in hundredths
Rates == {73, 137}

\* posting date of the reports of the model (a day number)
PostDt == 5

\* grand total of the invoices the order sync creates, in mills
InvoiceTotal == 120000

Row(tt, oid, desc, atype, amount, currency) ==
    [tt |-> tt, oid |-> oid, desc |-> desc, atype |-> atype, amount |-> amount,
     currency |-> currency]

\* the rows a report of the model is made of
CandRows ==
    { Row("transfer", "", "", "", 100000, "USD"),
      Row("", "", "AMAZON PROCEEDS", "", -30020, "CAD"),
      Row("order", "O1", "PRINCIPAL", "ItemPrice", 120000, "USD"),
      Row("order", "O2", "PRINCIPAL", "ItemPrice", 50000, "USD"),
      Row("refund", "O2", "PRINCIPAL", "ItemPrice", -80000, "USD"),
      Row("order_retrocharge", "O1", "SHIPPINGTAX", "ItemPrice", 5, "USD"),
      Row("refund", "O1", "REFUNDCOMMISSION", "ItemFees", 30, "USD"),
      Row("other-transaction", "", "STORAGE FEE", "other-transaction", -20000, "USD"),
      Row("servicefee", "", "TRANSACTIONTOTALAMOUNT", "Cost of Advertising", -20000, "USD"),
      Row("order", "O1", "COMMISSION", "ItemFees", -20000, "USD"),
      Row("other-transaction", "", "WAREHOUSE_LOST", "FBA INVENTORY REIMBURSEMENT",
          3010, "USD") }

RECURSIVE SeqsUpTo(_, _)
SeqsUpTo(S, n) ==
    IF n = 0 THEN {<<>>}
    ELSE LET shorter == SeqsUpTo(S, n - 1)
         IN shorter \cup {Append(q, x) : q \in {t \in shorter : Len(t) = n - 1}, x \in S}

Invoice(order_id, is_return, outstanding, return_against, report, posting_date, items_match) ==
    [order |-> order_id, is_return |-> is_return, docstatus |-> 1,
     outstanding |-> outstanding, return_against |-> return_against, report |-> report,
     posting_date |-> posting_date, items_match |-> items_match]

\* the ledgers a run may find: no invoice at all; an open invoice for O1 and
\* a paid one for O2; an invoice for O2 none of whose items matches a refunded
\* SKU, with an open credit note of an earlier report
InitLedgers ==
    { <<>>,
      << Invoice("O1", FALSE, 120000, 0, "", 1, TRUE),
         Invoice("O2", FALSE, 0, 0, "", 2, TRUE) >>,
      << Invoice("O2", FALSE, 50000, 0, "", 1, FALSE),
         Invoice("O2", TRUE, -30000, 1, "R0", 2, FALSE) >> }

\* the ledgers build_je is applied to: those above, and an order with two
\* submitted invoices, the older one open and the latest one paid
BuildLedgers ==
    InitLedgers \cup
    { << Invoice("O1", FALSE, 120000, 0, "", 1, TRUE),
         Invoice("O1", FALSE, 0, 0, "", 2, TRUE) >> }

Workers == {"w1", "w2"}

\* whether a credit note keeps its outstanding amount on itself
\* (update_outstanding_for_self); the site of the pipeline has the host's default
CreditNoteModes == {TRUE}

\* the reports the listing call returns, newest first
Listing == <<"R1", "R2">>

RowsR1 ==
    << Row("transfer", "", "", "", 100000, "USD"),
       Row("order", "O1", "PRINCIPAL", "ItemPrice", 120000, "USD"),
       Row("order", "O2", "PRINCIPAL", "ItemPrice", 50000, "USD"),
       Row("refund", "O2", "PRINCIPAL", "ItemPrice", -80000, "USD") >>

\* a report settled in CAD
RowsR2 ==
    << Row("", "", "AMAZON PROCEEDS", "", -30020, "CAD"),
       Row("refund", "O1", "PRINCIPAL", "ItemPrice", -25000, "CAD") >>

Catalogue == [r \in {"R1", "R2"} |-> IF r = "R1" THEN RowsR1 ELSE RowsR2]

IdleRun == [pc |-> "idle", batch |-> <<>>, idx |-> 0, first_pass |-> FALSE,
            je |-> <<>>, je_name |-> 0]

----------------------------------------------------------------------------
(* Idempotency & Retry Layer: _retry_locked *)

\* the operations the engine wraps with @_retry_locked()
WrappedFns == {"_insert_draft", "_finalize_and_submit"}

\* what one attempt of the wrapped operation gives: a return value or an exception
FnResults == {"None", "doc"}
OtherExceptions == {"TimestampMismatchError", "ValidationError"}
FnOutcomes == FnResults \cup {"DocumentLockedError"} \cup OtherExceptions

\* no fx_rate call in progress
IdleFx == [pc |-> "idle"]

IdleRetry == [pc |-> "idle", fn |-> "", attempt |-> 0, log |-> <<>>, current_delay |-> 0,
              slept |-> 0, outcome |-> ""]

\* the variables of the runs, the queue and the ledger
ledger_vars == <<rows, rate, bje, remote, invoices, jes, queue, runs, starts>>

\* no report, no run, an empty ledger
NoPipeline ==
    /\ rows = <<>>
    /\ rate = RateOne
    /\ bje = [st |-> "pending", lines |-> <<>>, first_pass |-> TRUE]
    /\ remote = [r \in {} |-> <<>>]
    /\ invoices = <<>>
    /\ jes = <<>>
    /\ queue = {}
    /\ runs = [w \in Workers |-> IdleRun]
    /\ starts = 0

\* mutant: except Exception
caught_any(exc) == TRUE

\* except frappe.exceptions.DocumentLockedError
caught(exc) == exc = "DocumentLockedError"

\* wrapper(*args, **kwargs) is entered
InitRetry ==
    /\ NoPipeline
    /\ fx_call = IdleFx
    /\ \E fn \in WrappedFns :
         retry = [pc |-> "loop", fn |-> fn, attempt |-> 0, log |-> <<>>,
                  current_delay |-> Delay, slept |-> 0, outcome |-> ""]

\* one iteration of `for attempt in range(tries)`
LoopAttempt ==
    /\ retry.pc = "loop"
    /\ retry.attempt < Tries
    /\ \E out \in FnOutcomes :
         retry' = IF out \in FnResults
                  THEN [retry EXCEPT !.pc = "returned", !.outcome = out,
                                     !.log = Append(@, out)]
                  ELSE IF caught(out)
                  THEN [retry EXCEPT !.attempt = @ + 1, !.log = Append(@, out),
                                     !.slept = @ + retry.current_delay,
                                     !.current_delay = Min((@ * 3) \div 2, DelayCap)]
                  ELSE [retry EXCEPT !.pc = "raised", !.outcome = out,
                                     !.log = Append(@, out)]
    /\ UNCHANGED <<ledger_vars, fx_call>>

\* "Final attempt (raise if fails)": return fn(*args, **kwargs) after the loop
FinalAttempt ==
    /\ retry.pc = "loop"
    /\ retry.attempt = Tries
    /\ \E out \in FnOutcomes :
         retry' = [retry EXCEPT !.pc = IF out \in FnResults THEN "returned" ELSE "raised",
                                !.outcome = out, !.log = Append(@, out)]
    /\ UNCHANGED <<ledger_vars, fx_call>>

NextRetry == LoopAttempt \/ FinalAttempt

SpecRetry == InitRetry /\ [][NextRetry]_vars

----------------------------------------------------------------------------
(* Posting Builder, step 2: fx_rate *)

\* the rate the provider quotes and the latest manual Currency Exchange
\* record, in hundredths
ProviderRate == 73
ManualRate == 137

\* what get_exchange_rate gives on one call: a rate, no rate (0 / None), or
\* one of the exceptions the loop catches
ProviderOutcomes == {"rate", "none", "HTTPError"}

\* fx_rate(from_ccy, posting_date) is entered.  day: how many days before the
\* requested date the current recursion level looks at; cache: the days with
\* a cached rate; manual: whether a Currency Exchange record exists
InitFx ==
    /\ NoPipeline
    /\ retry = IdleRetry
    /\ \E from_ccy \in {"USD", "CAD"}, cache \in SUBSET (0..FallbackDays), manual \in BOOLEAN :
         fx_call = [pc |-> "enter", from_ccy |-> from_ccy, to_ccy |-> "USD", day |-> 0,
                    deepest |-> 0, max_retries |-> MaxRetries, attempt |-> 0,
                    fallback_days |-> FallbackDays, calls0 |-> 0, calls |-> 0,
                    cache |-> cache, manual |-> manual, rate |-> 0, source |-> "",
                    found |-> 0]

\* a level hands its rate to its caller, which stores it under its own date
\* and returns it (the requested date's level returns to build_je)
ReturnToCaller(c) ==
    IF c.day = 0 THEN [c EXCEPT !.pc = "done"] ELSE [c EXCEPT !.pc = "return", !.day = @ - 1]

\* same currencies: 1.0; a cached rate for the date: that rate; else the loop
FxEnter ==
    /\ fx_call.pc = "enter"
    /\ fx_call' =
         IF fx_call.from_ccy = fx_call.to_ccy
         THEN [fx_call EXCEPT !.pc = "done", !.rate = RateOne, !.source = "same"]
         ELSE IF fx_call.day \in fx_call.cache
         THEN ReturnToCaller([fx_call EXCEPT !.rate = ProviderRate, !.source = "cache",
                                             !.found = fx_call.day])
         ELSE [fx_call EXCEPT !.pc = "provider", !.attempt = 0]
    /\ UNCHANGED <<ledger_vars, retry>>

\* one iteration of `for attempt in range(max_retries)`; after an exception
\* that is not the last attempt's the loop sleeps 2 ** attempt seconds
FxProvider ==
    /\ fx_call.pc = "provider"
    /\ fx_call.attempt < fx_call.max_retries
    /\ \E out \in ProviderOutcomes :
         LET c == [fx_call EXCEPT !.calls = @ + 1,
                                  !.calls0 = IF fx_call.day = 0 THEN @ + 1 ELSE @]
         IN fx_call' =
              IF out = "rate"
              THEN [c EXCEPT !.pc = "return", !.rate = ProviderRate, !.source = "provider",
                             !.found = c.day]
              ELSE IF c.attempt < c.max_retries - 1
              THEN [c EXCEPT !.attempt = @ + 1]
              ELSE [c EXCEPT !.attempt = @ + 1, !.pc = "fallback"]
    /\ UNCHANGED <<ledger_vars, retry>>

\* mutant: the recursive call keeps the caller's max_retries
recursive_call_full_retries(c) ==
    [c EXCEPT !.pc = "enter", !.day = @ + 1, !.deepest = c.day + 1,
              !.fallback_days = @ - 1]

\* fx_rate(from_ccy, prev_date, to_ccy, max_retries=1, fallback_days=fallback_days-1)
recursive_call(c) ==
    [c EXCEPT !.pc = "enter", !.day = @ + 1, !.deepest = c.day + 1,
              !.max_retries = FallbackRetries, !.fallback_days = @ - 1]

\* no rate after the loop: the previous day, or the manual record once no
\* fallback day is left
FxFallback ==
    /\ fx_call.pc = "fallback"
    /\ fx_call' = IF fx_call.fallback_days > 0 THEN recursive_call(fx_call)
                  ELSE [fx_call EXCEPT !.pc = "manual"]
    /\ UNCHANGED <<ledger_vars, retry>>

\* mutant: no record, the rate defaults to 1.0
missing_rate_default(c) == [c EXCEPT !.pc = "return", !.rate = RateOne, !.source = "default"]

\* frappe.throw("Exchange rate ... is missing"): the exception leaves every level
missing_rate(c) == [c EXCEPT !.pc = "raised", !.rate = 0, !.source = ""]

\* "Ultimate fallback": the most recent manual Currency Exchange record
FxManual ==
    /\ fx_call.pc = "manual"
    /\ fx_call' = IF fx_call.manual
                  THEN [fx_call EXCEPT !.pc = "return", !.rate = ManualRate,
                                       !.source = "manual"]
                  ELSE missing_rate(fx_call)
    /\ UNCHANGED <<ledger_vars, retry>>

\* frappe.cache().set_value(cache_key, rate, expires_in_sec=86400); return float(rate)
FxReturn ==
    /\ fx_call.pc = "return"
    /\ fx_call' = ReturnToCaller([fx_call EXCEPT !.cache = @ \cup {fx_call.day}])
    /\ UNCHANGED <<ledger_vars, retry>>

NextFx == FxEnter \/ FxProvider \/ FxFallback \/ FxManual \/ FxReturn

SpecFx == InitFx /\ [][NextFx]_vars

----------------------------------------------------------------------------
(* SpecBuild: build_je applied to every report of at most MaxRows rows *)

\* the confirmed posting of report R1 a later pass finds: built when the
\* ledger had no invoice yet, so that its AR lines carry no reference
PostedR1 ==
    [cheque_no |-> "R1", docstatus |-> 1,
     accounts |-> build_je(<<>>, "R1", PostDt, RowsR1, RateOne, {}, TRUE).lines]

InitBuild ==
    /\ rows \in SeqsUpTo(CandRows, MaxRows)
    /\ rate \in Rates
    /\ invoices \in BuildLedgers
    /\ bje = [st |-> "pending", lines |-> <<>>, first_pass |-> TRUE]
    /\ remote = [r \in {} |-> <<>>]
    /\ jes \in {<<>>, <<PostedR1>>}
    /\ queue = {}
    /\ runs = [w \in Workers |-> IdleRun]
    /\ starts = 0
    /\ retry = IdleRetry
    /\ fx_call = IdleFx

\* build_je(repo, report, rows, True) for a report without confirmed posting;
\* fx_raises: fx_rate raises (reached only with a net row in another currency)
BuildFirstPass ==
    /\ bje.st = "pending"
    /\ first_pass(jes, "R1")
    /\ \E excCN \in SUBSET Orders, cn_self \in BOOLEAN, fx_raises \in BOOLEAN :
         LET res == build_je(invoices, "R1", PostDt, rows, rate, excCN, cn_self)
         IN /\ fx_raises => native_total(rows) # 0 /\ settlement_ccy(rows) # "USD"
            /\ IF fx_raises
               THEN /\ bje' = [st |-> "raised", lines |-> <<>>, first_pass |-> TRUE]
                    /\ UNCHANGED invoices
               ELSE /\ bje' = [st |-> res.st, lines |-> res.lines, first_pass |-> TRUE]
                    /\ invoices' = res.inv
    /\ UNCHANGED <<rows, rate, remote, jes, queue, runs, starts, retry, fx_call>>

\* build_je(repo, report, rows, False) for a report with a confirmed posting
BuildLaterPass ==
    /\ bje.st = "pending"
    /\ ~first_pass(jes, "R1")
    /\ \E excCN \in SUBSET Orders, excSet \in SUBSET Orders, cn_self \in BOOLEAN,
          je_name \in ConfirmedFor(jes, "R1") :
         LET res == build_je_later_pass(jes, invoices, je_name, "R1", PostDt, rows,
                                        excCN, excSet, cn_self)
         IN /\ jes' = res.js
            /\ invoices' = res.inv
    /\ bje' = [st |-> "none", lines |-> <<>>, first_pass |-> FALSE]
    /\ UNCHANGED <<rows, rate, remote, queue, runs, starts, retry, fx_call>>

NextBuild == BuildFirstPass \/ BuildLaterPass

SpecBuild == InitBuild /\ [][NextBuild]_vars

----------------------------------------------------------------------------
(* SpecLate: late passes over the confirmed posting of report R1 *)

\* the late passes made over one posting
MaxPasses == 2

\* the invoice of order O2 as the first pass may find it
SaleInvoicesO2 ==
    {Invoice("O2", FALSE, out, 0, "", 1, im) : out \in {0, 50000}, im \in BOOLEAN}

\* credit notes of an earlier report against the invoice of O2, open
EarlierCreditNotes ==
    {Invoice("O2", TRUE, out, 1, "R0", d, FALSE) : out \in {-30000, -100000}, d \in {1, 2}}

\* the ledger when the late pass starts: the ledger the first pass left
\* (an invoice that was missing may have arrived, and with it a credit note
\* of this report that an earlier pass created without attaching it), the
\* credit note of this report partly used up or not, and up to two credit
\* notes of an earlier report
LateLedgers(after_first) ==
    LET base == IF after_first = <<>>
                THEN {<<>>} \cup {<<si>> : si \in SaleInvoicesO2}
                     \cup {<<si, Invoice("O2", TRUE, -30000, 1, "R1", PostDt, FALSE)>> :
                               si \in {x \in SaleInvoicesO2 : x.items_match}}
                ELSE {after_first} \cup
                     {[after_first EXCEPT ![n].outstanding = -30000] :
                          n \in {k \in Names(after_first) : after_first[k].is_return}}
    IN UNION {IF b = <<>> THEN {b}
              ELSE {b \o extra : extra \in SeqsUpTo(EarlierCreditNotes, 2)} : b \in base}

InitLate ==
    /\ rows = RowsR1
    /\ rate = RateOne
    /\ \E ledger0 \in {<<>>} \cup {<<si>> : si \in SaleInvoicesO2}, cn_self \in BOOLEAN :
          LET first == build_je(ledger0, "R1", PostDt, RowsR1, RateOne, {}, cn_self)
          IN /\ jes = <<[cheque_no |-> "R1", docstatus |-> 1, accounts |-> first.lines]>>
             /\ invoices \in LateLedgers(first.inv)
    /\ bje = [st |-> "pending", lines |-> <<>>, first_pass |-> FALSE]
    /\ remote = [r \in {} |-> <<>>]
    /\ queue = {}
    /\ runs = [w \in Workers |-> IdleRun]
    /\ starts = 0
    /\ retry = IdleRetry
    /\ fx_call = IdleFx

\* build_je(repo, report, rows, False) on the confirmed posting of R1
LatePass ==
    /\ starts < MaxPasses
    /\ starts' = starts + 1
    /\ \E excCN \in SUBSET {"O2"}, excSet \in SUBSET Orders, cn_self \in BOOLEAN,
          je_name \in ConfirmedFor(jes, "R1") :
         LET res == build_je_later_pass(jes, invoices, je_name, "R1", PostDt, rows,
                                        excCN, excSet, cn_self)
         IN /\ jes' = res.js
            /\ invoices' = res.inv
    /\ bje' = [st |-> "none", lines |-> <<>>, first_pass |-> FALSE]
    /\ UNCHANGED <<rows, rate, remote, queue, runs, retry, fx_call>>

NextLate == LatePass

SpecLate == InitLate /\ [][NextLate]_vars

----------------------------------------------------------------------------
(* SpecFlag: _flag_unallocated_as_advance applied to a document of one row *)

\* amount of the rows of SpecFlag, in mills
FlagAmount == 5000

\* the rows of a Journal Entry handed to _flag_unallocated_as_advance
FlagCandidates ==
    { [Line("debtors", side[1], side[2], RateOne, party_type, "O1", ref, "")
          EXCEPT !.party = party, !.is_advance = is_advance] :
        side \in {<<FlagAmount, 0>>, <<0, FlagAmount>>, <<0, 0>>},
        party_type \in {"", "Customer", "Supplier", "Employee"},
        party \in {"", "customer"},
        ref \in {0, 1},
        is_advance \in {"", "No", "Yes"} }

InitFlag ==
    /\ rows = <<>>
    /\ rate = RateOne
    /\ \E row \in FlagCandidates :
         bje = [st |-> "unflagged", lines |-> <<row>>, first_pass |-> TRUE]
    /\ remote = [r \in {} |-> <<>>]
    /\ invoices = <<>>
    /\ jes = <<>>
    /\ queue = {}
    /\ runs = [w \in Workers |-> IdleRun]
    /\ starts = 0
    /\ retry = IdleRetry
    /\ fx_call = IdleFx

FlagAdvance ==
    /\ bje.st = "unflagged"
    /\ bje' = [bje EXCEPT !.st = "flagged", !.lines = _flag_unallocated_as_advance(@)]
    /\ UNCHANGED <<rows, rate, remote, invoices, jes, queue, runs, starts, retry, fx_call>>

NextFlag == FlagAdvance

SpecFlag == InitFlag /\ [][NextFlag]_vars

----------------------------------------------------------------------------
(* Spec: process_settlements runs, the job queue and the ledger *)

Init ==
    /\ rows = <<>>
    /\ rate \in Rates
    /\ bje = [st |-> "pending", lines |-> <<>>, first_pass |-> TRUE]
    /\ remote = Catalogue
    /\ invoices \in {inv \in InitLedgers : inv # <<>>}
    /\ jes = <<>>
    /\ queue = {}
    /\ runs = [w \in Workers |-> IdleRun]
    /\ starts = 0
    /\ retry = IdleRetry
    /\ fx_call = IdleFx

\* mutant: the posting is inserted as submitted
insert_submitted(js, rpt_id, accounts) ==
    Append(js, [cheque_no |-> rpt_id, docstatus |-> 1, accounts |-> accounts])

\* je.insert(): the posting enters the table as a draft
insert_draft(js, rpt_id, accounts) ==
    Append(js, [cheque_no |-> rpt_id, docstatus |-> 0, accounts |-> accounts])

\* the loop of process_settlements moves to the next report, or ends
NextReport(r) ==
    IF r.idx < Len(r.batch)
    THEN [r EXCEPT !.pc = "check", !.idx = @ + 1, !.je = <<>>, !.je_name = 0]
    ELSE IdleRun

\* except Exception: frappe.log_error(...); continue
LogAndContinue(r) == NextReport(r)

CurrentReport(w) == runs[w].batch[runs[w].idx]

\* the orders for which a call may raise: any subset of S when F allows
\* exceptions, none otherwise
Raising(F, S) == IF TRUE \in F THEN SUBSET S ELSE {{}}

KeysOf(keys) == {keys[i] : i \in DOMAIN keys}

\* In the actions below F is the set the exception inputs range over: BOOLEAN
\* where remote calls and database writes may raise, {FALSE} where none does.

\* the workers that execute an invocation
Active == {v \in Workers : runs[v].pc \notin {"idle", "aborted"}}

\* process_settlements up to the loop: the listing call.  With after_date set
\* the selection fetches the rows of every listed report, outside any try.
StartRun(w, F) ==
    /\ runs[w].pc \in {"idle", "aborted"}
    /\ Active = {} => w = "w1"
    /\ starts < MaxStarts
    /\ starts' = starts + 1
    /\ \E after_date \in BOOLEAN, fetch_raises \in F :
         runs' = [runs EXCEPT ![w] =
                    IF after_date /\ fetch_raises
                    THEN [IdleRun EXCEPT !.pc = "aborted"]
                    ELSE [IdleRun EXCEPT !.pc = "check", !.batch = Listing, !.idx = 1]]
    /\ UNCHANGED <<rows, rate, bje, remote, invoices, jes, queue, retry, fx_call>>

CheckFirstPass(w) ==
    /\ runs[w].pc = "check"
    /\ runs' = [runs EXCEPT ![w].pc = "build",
                            ![w].first_pass = first_pass(jes, CurrentReport(w))]
    /\ UNCHANGED <<rows, rate, bje, remote, invoices, jes, queue, starts, retry, fx_call>>

\* fetch_settlement_rows raises, or returns no row at all when the document
\* meta has no url (build_je then returns None at once)
FetchFails(w) ==
    /\ runs[w].pc = "build"
    /\ \E raises \in BOOLEAN :
         runs' = [runs EXCEPT ![w] = IF raises THEN LogAndContinue(runs[w])
                                     ELSE NextReport(runs[w])]
    /\ UNCHANGED <<rows, rate, bje, remote, invoices, jes, queue, starts, retry, fx_call>>

\* the rows are fetched and build_je runs on first pass: the posting
\* document, not yet inserted
BuildFirst(w, F) ==
    /\ runs[w].pc = "build"
    /\ runs[w].first_pass
    /\ LET rs == remote[CurrentReport(w)]
       IN \E excCN \in Raising(F, KeysOf(refund_totals(rs))), cn_self \in CreditNoteModes,
             fx_raises \in F :
            LET res == build_je(invoices, CurrentReport(w), PostDt, rs, rate, excCN, cn_self)
            IN /\ fx_raises => native_total(rs) # 0 /\ settlement_ccy(rs) # "USD"
               /\ IF fx_raises
                  THEN /\ runs' = [runs EXCEPT ![w] = LogAndContinue(runs[w])]
                       /\ UNCHANGED invoices
                  ELSE IF res.st = "none"
                  THEN /\ runs' = [runs EXCEPT ![w] = NextReport(runs[w])]
                       /\ UNCHANGED invoices
                  ELSE /\ runs' = [runs EXCEPT ![w].pc = "insert", ![w].je = res.lines]
                       /\ invoices' = res.inv
    /\ UNCHANGED <<rows, rate, bje, remote, jes, queue, starts, retry, fx_call>>

\* the rows are fetched and build_je runs when a confirmed posting existed:
\* late allocation, returns None
BuildLate(w, F) ==
    /\ runs[w].pc = "build"
    /\ ~runs[w].first_pass
    /\ LET rs == remote[CurrentReport(w)]
       IN \E excCN \in Raising(F, KeysOf(refund_totals(rs))),
             excSet \in Raising(F, KeysOf(refund_totals(rs)) \cup KeysOf(sales_totals(rs))),
             cn_self \in CreditNoteModes,
             je_name \in ConfirmedFor(jes, CurrentReport(w)) :
            LET res == build_je_later_pass(jes, invoices, je_name, CurrentReport(w),
                                           PostDt, rs, excCN, excSet, cn_self)
            IN /\ jes' = res.js
               /\ invoices' = res.inv
    /\ runs' = [runs EXCEPT ![w] = NextReport(runs[w])]
    /\ UNCHANGED <<rows, rate, bje, remote, queue, starts, retry, fx_call>>

InsertDraft(w, F) ==
    /\ runs[w].pc = "insert"
    /\ \E raises \in F :
         IF raises
         THEN /\ runs' = [runs EXCEPT ![w] = LogAndContinue(runs[w])]
              /\ UNCHANGED jes
         ELSE /\ jes' = insert_draft(jes, CurrentReport(w), runs[w].je)
              /\ runs' = [runs EXCEPT ![w].pc = "enqueue", ![w].je = <<>>,
                                      ![w].je_name = Len(jes) + 1]
    /\ UNCHANGED <<rows, rate, bje, remote, invoices, queue, starts, retry, fx_call>>

EnqueueFinalize(w, F) ==
    /\ runs[w].pc = "enqueue"
    /\ \E raises \in F :
         IF raises
         THEN /\ runs' = [runs EXCEPT ![w] = LogAndContinue(runs[w])]
              /\ UNCHANGED queue
         ELSE /\ queue' = queue \cup {runs[w].je_name}
              /\ runs' = [runs EXCEPT ![w] = NextReport(runs[w])]
    /\ UNCHANGED <<rows, rate, bje, remote, invoices, jes, starts, retry, fx_call>>

\* row.debit / row.credit: the base-currency amounts the host's validation
\* writes on save, flt(amount * exchange_rate, 2); in mills
RECURSIVE base_total_debit(_)
base_total_debit(accounts) ==
    IF accounts = <<>> THEN 0
    ELSE Round2(Head(accounts).debit * Head(accounts).exchange_rate)
         + base_total_debit(Tail(accounts))

RECURSIVE base_total_credit(_)
base_total_credit(accounts) ==
    IF accounts = <<>> THEN 0
    ELSE Round2(Head(accounts).credit * Head(accounts).exchange_rate)
         + base_total_credit(Tail(accounts))

FinalizeRemark == "Rounding adjustment for exchange rate variations"

\* mutant: the rounding row is written whatever the difference
finalize_rounding_unconditional(accounts) ==
    LET difference == base_total_debit(accounts) - base_total_credit(accounts)
        line == Line("round_off", 0, 0, RateOne, "", "", 0, FinalizeRemark)
    IN IF difference > 0
       THEN Append(accounts, [line EXCEPT !.credit = Abs(difference)])
       ELSE Append(accounts, [line EXCEPT !.debit = Abs(difference)])

\* mutant: the difference is measured without the rounding row saved before
finalize_rounding_ignoring_saved(accounts) ==
    LET others == SelectSeq(accounts, LAMBDA l : ~(l.account = "round_off"
                                                   /\ l.user_remark = FinalizeRemark))
        difference == base_total_debit(others) - base_total_credit(others)
        S == {i \in DOMAIN accounts : /\ accounts[i].account = "round_off"
                                      /\ accounts[i].user_remark = FinalizeRemark}
        appended == IF S = {}
                    THEN Append(accounts, Line("round_off", 0, 0, RateOne, "", "", 0,
                                               FinalizeRemark))
                    ELSE accounts
        k == IF S = {} THEN Len(accounts) + 1 ELSE CHOOSE i \in S : \A m \in S : i <= m
    IN IF Abs(difference) * RateOne < Threshold THEN accounts
       ELSE IF difference > 0
       THEN [appended EXCEPT ![k].credit = @ + Abs(difference), ![k].debit = 0]
       ELSE [appended EXCEPT ![k].debit = @ + Abs(difference), ![k].credit = 0]

\* the rounding step of _finalize_and_submit: the rows of the posting after it
finalize_rounding(accounts) ==
    LET difference == base_total_debit(accounts) - base_total_credit(accounts)
        S == {i \in DOMAIN accounts : /\ accounts[i].account = "round_off"
                                      /\ accounts[i].user_remark = FinalizeRemark}
        appended == IF S = {}
                    THEN Append(accounts, Line("round_off", 0, 0, RateOne, "", "", 0,
                                               FinalizeRemark))
                    ELSE accounts
        k == IF S = {} THEN Len(accounts) + 1 ELSE CHOOSE i \in S : \A m \in S : i <= m
    IN IF Abs(difference) * RateOne < Threshold THEN accounts
       ELSE IF difference > 0
       THEN [appended EXCEPT ![k].credit = @ + Abs(difference), ![k].debit = 0]
       ELSE [appended EXCEPT ![k].debit = @ + Abs(difference), ![k].credit = 0]

\* je.submit(): every referenced row settles its invoice or credit note
RECURSIVE apply_posting(_, _)
apply_posting(inv, accounts) ==
    IF accounts = <<>> THEN inv
    ELSE LET row == Head(accounts)
         IN apply_posting(
                IF row.ref = 0 THEN inv
                ELSE [inv EXCEPT ![row.ref].outstanding = @ - (row.credit - row.debit)],
                Tail(accounts))

\* mutant: the job does not look at the status of the posting
FinalizeJobAnyStatus(je_name, F) ==
    /\ je_name \in queue
    /\ queue' = queue \ {je_name}
    /\ IF je_name \notin DOMAIN jes
       THEN UNCHANGED <<jes, invoices>>
       ELSE LET adjusted == finalize_rounding(jes[je_name].accounts)
            IN /\ jes' = [jes EXCEPT ![je_name].accounts = adjusted,
                                     ![je_name].docstatus = 1]
               /\ invoices' = apply_posting(invoices, adjusted)
    /\ UNCHANGED <<rows, rate, bje, remote, runs, starts, retry, fx_call>>

\* the queued job finalize_and_submit_settlement_je(je_name).  raises: the
\* last attempt of _retry_locked found the document locked, or save/submit
\* raised another exception; saved: the rounding row was committed before
FinalizeJob(je_name, F) ==
    /\ je_name \in queue
    /\ queue' = queue \ {je_name}
    /\ IF je_name \notin DOMAIN jes \/ jes[je_name].docstatus # 0
       THEN UNCHANGED <<jes, invoices>>
       ELSE \E raises \in F, saved \in BOOLEAN :
              LET adjusted == finalize_rounding(jes[je_name].accounts)
              IN /\ saved => raises /\ adjusted # jes[je_name].accounts
                 /\ IF raises
                    THEN /\ jes' = IF saved THEN [jes EXCEPT ![je_name].accounts = adjusted]
                                   ELSE jes
                         /\ UNCHANGED invoices
                    ELSE /\ jes' = [jes EXCEPT ![je_name].accounts = adjusted,
                                               ![je_name].docstatus = 1]
                         /\ invoices' = apply_posting(invoices, adjusted)
    /\ UNCHANGED <<rows, rate, bje, remote, runs, starts, retry, fx_call>>

\* the order sync submits the sale invoice of an order that has none yet
SyncInvoice ==
    /\ \E order_id \in Orders :
         /\ get_sales_invoice(invoices, order_id) = 0
         /\ invoices' = Append(invoices, Invoice(order_id, FALSE, InvoiceTotal, 0, "",
                                                 Len(invoices) + 1, TRUE))
    /\ UNCHANGED <<rows, rate, bje, remote, jes, queue, runs, starts, retry, fx_call>>

Next ==
    \/ \E w \in Workers : StartRun(w, BOOLEAN)
    \/ \E w \in Workers : CheckFirstPass(w)
    \/ \E w \in Workers : FetchFails(w)
    \/ \E w \in Workers : BuildFirst(w, BOOLEAN)
    \/ \E w \in Workers : BuildLate(w, BOOLEAN)
    \/ \E w \in Workers : InsertDraft(w, BOOLEAN)
    \/ \E w \in Workers : EnqueueFinalize(w, BOOLEAN)
    \/ \E je_name \in queue : FinalizeJob(je_name, BOOLEAN)
    \/ SyncInvoice

Spec == Init /\ [][Next]_vars

\* SpecRerun: the same runs and jobs when no call raises and nothing but the
\* engine writes to the ledger
NextRerun ==
    \/ \E w \in Workers : StartRun(w, {FALSE})
    \/ \E w \in Workers : CheckFirstPass(w)
    \/ \E w \in Workers : BuildFirst(w, {FALSE})
    \/ \E w \in Workers : BuildLate(w, {FALSE})
    \/ \E w \in Workers : InsertDraft(w, {FALSE})
    \/ \E w \in Workers : EnqueueFinalize(w, {FALSE})
    \/ \E je_name \in queue : FinalizeJob(je_name, {FALSE})

SpecRerun == Init /\ [][NextRerun]_vars

----------------------------------------------------------------------------
(* SpecSpGet: one call of _sp_get; its loop state is kept in retry *)

\* the largest max_retry a call of the model is made with
MaxSpRetry == 3

\* the status codes the loop retries on
RetryStatuses == {429, 500, 502, 503, 504}

\* the status codes of the model: success, forbidden, the retried ones, an
\* error status outside the list, a status below 400 other than 200
Statuses == {200, 204, 403, 404} \cup RetryStatuses

\* what requests.get gives: a RequestException, or a response with a status
\* code and a Retry-After header that is absent, a number of seconds or a date
HttpOutcomes ==
    {[network_error |-> TRUE, status |-> 0, retry_after |-> "absent"]}
    \cup {[network_error |-> FALSE, status |-> c, retry_after |-> h] :
             c \in Statuses, h \in {"absent", "seconds"}}
    \cup {[network_error |-> FALSE, status |-> c, retry_after |-> "date"] :
             c \in {204, 429}}

\* resp.raise_for_status() raises for the client and server error codes only
raise_for_status(status) == status >= 400 /\ status < 600

\* the body of `for attempt in range(max_retry)` after requests.get gave out:
\* the loop state for the next iteration, or the return or exception
sp_get_step(c, out) ==
    LET seen == [c EXCEPT !.history = Append(@, out)]
        again == [seen EXCEPT !.attempt = @ + 1]
    IN IF out.network_error THEN again
       ELSE IF out.status = 200 THEN [seen EXCEPT !.pc = "returned", !.result = "payload"]
       ELSE IF out.status = 403 THEN [seen EXCEPT !.pc = "returned", !.result = "empty"]
       ELSE IF out.status \notin RetryStatuses /\ raise_for_status(out.status)
       THEN [seen EXCEPT !.pc = "raised", !.result = "HTTPError"]
       ELSE IF out.retry_after = "date"
       THEN [seen EXCEPT !.pc = "raised", !.result = "ValueError"]
       ELSE again

\* _sp_get is called, the token is at hand
InitSpGet ==
    /\ NoPipeline
    /\ fx_call = IdleFx
    /\ \E max_retry \in 1..MaxSpRetry :
          retry = [pc |-> "loop", attempt |-> 0, max_retry |-> max_retry,
                   history |-> <<>>, result |-> ""]

\* one iteration of the loop: one HTTP request
SpGetAttempt ==
    /\ retry.pc = "loop"
    /\ retry.attempt < retry.max_retry
    /\ \E out \in HttpOutcomes : retry' = sp_get_step(retry, out)
    /\ UNCHANGED <<ledger_vars, fx_call>>

\* the loop ends without a return: return {}
SpGetExhausted ==
    /\ retry.pc = "loop"
    /\ retry.attempt >= retry.max_retry
    /\ retry' = [retry EXCEPT !.pc = "returned", !.result = "empty"]
    /\ UNCHANGED <<ledger_vars, fx_call>>

NextSpGet == SpGetAttempt \/ SpGetExhausted

SpecSpGet == InitSpGet /\ [][NextSpGet]_vars

\* the interpreter goes on with the loop
SpecSpGetFair == SpecSpGet /\ WF_vars(NextSpGet)

----------------------------------------------------------------------------
(* SpecListing: list_latest_settlement_reports on the reports the API lists *)

\* the reports one listing holds at most
MaxReports == 3

\* the largest limit of a call
MaxLimit == 2

\* a report of the listing; a time of 0 stands for a key the dict lacks.
\* end_ok: the report has rows and their settlement-end-date parses and is
\* not before after_date
Report(id, createdTime, dataEndTime, end_ok) ==
    [reportId |-> id, reportDate |-> 0, createdTime |-> createdTime,
     dataEndTime |-> dataEndTime, end_ok |-> end_ok]

\* the listings of n reports, report i having the id i
RECURSIVE Listings(_)
Listings(n) ==
    IF n = 0 THEN {<<>>}
    ELSE {Append(q, Report(n, c, d, ok)) :
             q \in Listings(n - 1), c \in 0..2, d \in 1..2, ok \in BOOLEAN}

\* the first of reportDate, createdTime, dataEndTime the dict has;
\* datetime.min (0) if it has none
_report_sort_key(r) ==
    IF r.reportDate # 0 THEN r.reportDate
    ELSE IF r.createdTime # 0 THEN r.createdTime
    ELSE IF r.dataEndTime # 0 THEN r.dataEndTime
    ELSE 0

\* list.sort(key = _report_sort_key, reverse = True): descending and stable
RECURSIVE sort_reports(_)
sort_reports(q) ==
    IF q = <<>> THEN <<>>
    ELSE LET x == q[Len(q)]
             before == sort_reports(SubSeq(q, 1, Len(q) - 1))
             ahead == {i \in DOMAIN before :
                         \A k \in 1..i : _report_sort_key(before[k]) >= _report_sort_key(x)}
             n == Cardinality(ahead)
         IN SubSeq(before, 1, n) \o <<x>> \o SubSeq(before, n + 1, Len(before))

\* the loop over the sorted reports when after_date is set
RECURSIVE filter_reports(_, _, _)
filter_reports(sorted, filtered, limit) ==
    IF sorted = <<>> \/ Len(filtered) >= limit THEN filtered
    ELSE filter_reports(Tail(sorted),
                        IF Head(sorted).end_ok THEN Append(filtered, Head(sorted)) ELSE filtered,
                        limit)

\* list_latest_settlement_reports(settings, limit) once the pages are read
list_latest_settlement_reports(all_reports, limit, after_date) ==
    IF ~after_date THEN SubSeq(sort_reports(all_reports), 1, Min(limit, Len(all_reports)))
    ELSE filter_reports(sort_reports(all_reports), <<>>, limit)

\* the pages are read: rows holds all_reports
InitListing ==
    /\ rows \in UNION {Listings(n) : n \in 0..MaxReports}
    /\ \E limit \in 1..MaxLimit, after_date \in BOOLEAN :
          bje = [st |-> "pending", lines |-> <<>>, first_pass |-> TRUE,
                 limit |-> limit, after_date |-> after_date]
    /\ rate = RateOne
    /\ remote = [r \in {} |-> <<>>]
    /\ invoices = <<>>
    /\ jes = <<>>
    /\ queue = {}
    /\ runs = [w \in Workers |-> IdleRun]
    /\ starts = 0
    /\ retry = IdleRetry
    /\ fx_call = IdleFx

\* the sort, the filter and the return
ListReports ==
    /\ bje.st = "pending"
    /\ bje' = [bje EXCEPT !.st = "listed",
                          !.lines = list_latest_settlement_reports(rows, bje.limit,
                                                                   bje.after_date)]
    /\ UNCHANGED <<rows, rate, remote, invoices, jes, queue, runs, starts, retry, fx_call>>

NextListing == ListReports

SpecListing == InitListing /\ [][NextListing]_vars

----------------------------------------------------------------------------
(* SpecOrder: one run of process_settlements over a batch of two reports *)

\* the ledger the run finds: an open invoice for O1, a paid one for O2
OrderLedger ==
    << Invoice("O1", FALSE, 120000, 0, "", 1, TRUE),
       Invoice("O2", FALSE, 0, 0, "", 2, TRUE) >>

\* the order rows the reports of the batch are made of; both reports may
\* have rows of the same order
OrderRows ==
    { Row("order", "O1", "PRINCIPAL", "ItemPrice", 120000, "USD"),
      Row("order", "O1", "SHIPPING", "ItemPrice", 60000, "USD"),
      Row("refund", "O1", "PRINCIPAL", "ItemPrice", -25000, "USD"),
      Row("refund", "O2", "PRINCIPAL", "ItemPrice", -80000, "USD") }

\* a report: the net row and one or two order rows
OrderReports ==
    {<<Row("transfer", "", "", "", 100000, "USD")>> \o q :
        q \in SeqsUpTo(OrderRows, 2) \ {<<>>}}

\* the listing returned two reports, in one order or the other
InitOrder ==
    /\ rows = <<>>
    /\ rate = RateOne
    /\ bje = [st |-> "pending", lines |-> <<>>, first_pass |-> TRUE]
    /\ remote \in [{"R1", "R2"} -> OrderReports]
    /\ invoices = OrderLedger
    /\ jes = <<>>
    /\ queue = {}
    /\ \E batch \in {<<"R1", "R2">>, <<"R2", "R1">>} :
          runs = [w \in Workers |->
                    IF w = "w1" THEN [IdleRun EXCEPT !.pc = "check", !.batch = batch, !.idx = 1]
                    ELSE IdleRun]
    /\ starts = 1
    /\ retry = IdleRetry
    /\ fx_call = IdleFx

\* the loop of process_settlements, no call raising, and the finalize jobs
\* it queued, which a worker may run before the next report is built
NextOrder ==
    \/ CheckFirstPass("w1")
    \/ BuildFirst("w1", {FALSE})
    \/ InsertDraft("w1", {FALSE})
    \/ EnqueueFinalize("w1", {FALSE})
    \/ \E je_name \in queue : FinalizeJob(je_name, {FALSE})

SpecOrder == InitOrder /\ [][NextOrder]_vars

----------------------------------------------------------------------------
(* SpecNormalize: the row loop of fetch_settlement_rows on two csv rows *)

\* a csv cell: its text without the surrounding blanks, and whether a blank
\* leads or trails it
Cell(lead, body, trail) == [lead |-> lead, body |-> body, trail |-> trail]

\* str.strip() on a cell
Strip(c) == Cell(FALSE, c.body, FALSE)

\* truth of a str: the empty string is false
Truthy(c) == c # Cell(FALSE, "", FALSE)

\* the column names of the model as the file may spell them, and
\* k.lower().strip() of each
HeaderKey ==
    [h \in {"amount type", "Amount Type ", "amount-type", "Amount-Type",
            "amount description", "amount-description", "amount", "total-amount"} |->
        CASE h \in {"amount type", "Amount Type "} -> "amount type"
          [] h \in {"amount-type", "Amount-Type"} -> "amount-type"
          [] OTHER -> h]

\* float(raw_amt) on the amount texts of the model: the value in mills, or
\* ValueError (float accepts no thousands separator)
ParseFloat ==
    [t \in {"", "12.50", "-80.00", "1,234.56"} |->
        CASE t = "12.50" -> [ValueError |-> FALSE, value |-> 12500]
          [] t = "-80.00" -> [ValueError |-> FALSE, value |-> -80000]
          [] OTHER -> [ValueError |-> TRUE, value |-> 0]]

\* r = {k.lower().strip(): v for k, v in r.items()}
LowerKeys(r) ==
    [k \in {HeaderKey[h] : h \in DOMAIN r} |->
        r[CHOOSE h \in DOMAIN r : HeaderKey[h] = k]]

\* r[new] = r.pop(old).strip() if old is a key of r and new is not
RenameStripped(r, old, new) ==
    IF old \in DOMAIN r /\ new \notin DOMAIN r
    THEN [k \in (DOMAIN r \ {old}) \cup {new} |-> IF k = new THEN Strip(r[old]) ELSE r[k]]
    ELSE r

\* r.get(key) or other
GetOr(r, key, other) == IF key \in DOMAIN r /\ Truthy(r[key]) THEN r[key] ELSE other

\* the body of the row loop: the row appended for csv row r; the amount is
\* [num |-> mills]
NormalizeRow(r) ==
    LET r1 == LowerKeys(r)
        r2 == RenameStripped(r1, "amount type", "amount-type")
        r3 == RenameStripped(r2, "amount description", "amount-description")
        raw_amt == Strip(GetOr(r3, "amount", GetOr(r3, "total-amount", Cell(FALSE, "", FALSE))))
        amount == IF Truthy(raw_amt) /\ ~ParseFloat[raw_amt.body].ValueError
                  THEN ParseFloat[raw_amt.body].value ELSE 0
    IN [k \in DOMAIN r3 \cup {"amount"} |-> IF k = "amount" THEN [num |-> amount] ELSE r3[k]]

\* the spellings of the two columns a file may use
TypeHeaders == {"amount type", "Amount Type ", "amount-type", "Amount-Type"}
DescriptionHeaders == {"amount description", "amount-description"}

\* a csv row with the given column spellings and cells
CsvRow(th, dh, ah, tcell, dcell, acell) ==
    [h \in {th, dh, ah} |-> IF h = th THEN tcell ELSE IF h = dh THEN dcell ELSE acell]

\* the cell contents of the model: with and without surrounding blanks
TextCells(body) == {Cell(l, body, t) : l \in BOOLEAN, t \in BOOLEAN}

\* two csv rows with the same cells whose column spellings differ
InitNormalize ==
    /\ \E ta \in TypeHeaders, tb \in TypeHeaders,
          da \in DescriptionHeaders, db \in DescriptionHeaders,
          ah \in {"amount", "total-amount"},
          tcell \in TextCells("ItemPrice"), dcell \in TextCells("Principal"),
          atext \in DOMAIN ParseFloat, apad \in BOOLEAN :
          /\ <<ta, da>> # <<tb, db>>
          /\ rows = <<CsvRow(ta, da, ah, tcell, dcell, Cell(apad, atext, FALSE)),
                      CsvRow(tb, db, ah, tcell, dcell, Cell(apad, atext, FALSE))>>
    /\ rate = RateOne
    /\ bje = [st |-> "pending", lines |-> <<>>, first_pass |-> TRUE]
    /\ remote = [r \in {} |-> <<>>]
    /\ invoices = <<>>
    /\ jes = <<>>
    /\ queue = {}
    /\ runs = [w \in Workers |-> IdleRun]
    /\ starts = 0
    /\ retry = IdleRetry
    /\ fx_call = IdleFx

\* the row loop over the two csv rows
NormalizeRows ==
    /\ bje.st = "pending"
    /\ bje' = [st |-> "normalized",
               lines |-> [i \in DOMAIN rows |-> NormalizeRow(rows[i])],
               first_pass |-> TRUE]
    /\ UNCHANGED <<rows, rate, remote, invoices, jes, queue, runs, starts, retry, fx_call>>

NextNormalize == NormalizeRows

SpecNormalize == InitNormalize /\ [][NextNormalize]_vars

----------------------------------------------------------------------------
(* SpecFinalize: the finalize job on the draft of one report *)

\* the draft process_settlements inserted for report R1 and queued, built
\* from any rows and ledger of SpecBuild
InitFinalize ==
    /\ rows \in SeqsUpTo(CandRows, MaxRows)
    /\ rate \in Rates
    /\ \E ledger \in BuildLedgers :
          LET res == build_je(ledger, "R1", PostDt, rows, rate, {}, TRUE)
          IN /\ res.st = "built"
             /\ jes = insert_draft(<<>>, "R1", res.lines)
             /\ invoices = res.inv
    /\ bje = [st |-> "pending", lines |-> <<>>, first_pass |-> TRUE]
    /\ remote = [r \in {} |-> <<>>]
    /\ queue = {1}
    /\ runs = [w \in Workers |-> IdleRun]
    /\ starts = 0
    /\ retry = IdleRetry
    /\ fx_call = IdleFx

NextFinalize == \E je_name \in queue : FinalizeJob(je_name, {FALSE})

SpecFinalize == InitFinalize /\ [][NextFinalize]_vars

----------------------------------------------------------------------------
(* SpecRefinalize, SpecFinalizeRetry: the finalize job run again for one posting *)

\* how often the job of the posting is put back on the queue
MaxRuns == 2

\* the job of posting je_name is run again once its last run has ended: a
\* failed job put back on the queue, or the function called by hand
RequeueFinalize(je_name) ==
    /\ queue = {}
    /\ starts < MaxRuns
    /\ starts' = starts + 1
    /\ queue' = {je_name}
    /\ UNCHANGED <<rows, rate, bje, remote, invoices, jes, runs, retry, fx_call>>

\* bench_functions.cancel_journal_entry(jv_name): jv.cancel() of a submitted
\* posting reverses what it booked (its rows with debit and credit
\* exchanged); on any other posting it raises
cancel_journal_entry(jv_name) ==
    /\ jv_name \in DOMAIN jes
    /\ jes[jv_name].docstatus = 1
    /\ jes' = [jes EXCEPT ![jv_name].docstatus = 2]
    /\ LET accounts == jes[jv_name].accounts
           reversed == [i \in DOMAIN accounts |->
                           [accounts[i] EXCEPT !.debit = accounts[i].credit,
                                               !.credit = accounts[i].debit]]
       IN invoices' = apply_posting(invoices, reversed)
    /\ UNCHANGED <<rows, rate, bje, remote, queue, runs, starts, retry, fx_call>>

\* bench_functions.delete_all_journal_entries(): every posting is deleted by
\* force, without cancellation
delete_all_journal_entries ==
    /\ jes # <<>>
    /\ jes' = <<>>
    /\ UNCHANGED <<rows, rate, bje, remote, invoices, queue, runs, starts, retry, fx_call>>

NextRefinalize ==
    \/ \E je_name \in queue : FinalizeJob(je_name, {FALSE})
    \/ RequeueFinalize(1)
    \/ \E jv_name \in DOMAIN jes : cancel_journal_entry(jv_name)
    \/ delete_all_journal_entries

SpecRefinalize == InitFinalize /\ [][NextRefinalize]_vars

NextFinalizeRetry ==
    \/ \E je_name \in queue : FinalizeJob(je_name, BOOLEAN)
    \/ RequeueFinalize(1)

SpecFinalizeRetry == InitFinalize /\ [][NextFinalizeRetry]_vars

----------------------------------------------------------------------------
(* SpecReimb: build_je on reports with reimbursement rows of either sign *)

\* rows that qualify as reimbursement by a white-listed description, by a
\* description containing REIMBURSEMENT or by the amount type, and one that
\* does not qualify
ReimbRows ==
    { Row("other-transaction", "", "WAREHOUSE_LOST", "other-transaction", 3010, "USD"),
      Row("other-transaction", "", "WAREHOUSE_DAMAGE", "other-transaction", -2000, "USD"),
      Row("other-transaction", "", "FBA INVENTORY REIMBURSEMENT", "other-transaction",
          -1500, "USD"),
      Row("other-transaction", "", "ADJUSTMENT", "FBA INVENTORY REIMBURSEMENT", 700, "USD"),
      Row("other-transaction", "", "ADJUSTMENT", "FBA INVENTORY REIMBURSEMENT", -700, "USD"),
      Row("servicefee", "", "TRANSACTIONTOTALAMOUNT", "Cost of Advertising", -20000, "USD") }

InitReimb ==
    /\ rows \in {<<net>> \o q : net \in {Row("transfer", "", "", "", 100000, "USD"),
                                          Row("", "", "AMAZON PROCEEDS", "", -30020, "CAD")},
                                q \in SeqsUpTo(ReimbRows, MaxRows)}
    /\ rate \in Rates
    /\ invoices = <<>>
    /\ bje = [st |-> "pending", lines |-> <<>>, first_pass |-> TRUE]
    /\ remote = [r \in {} |-> <<>>]
    /\ jes = <<>>
    /\ queue = {}
    /\ runs = [w \in Workers |-> IdleRun]
    /\ starts = 0
    /\ retry = IdleRetry
    /\ fx_call = IdleFx

NextReimb == BuildFirstPass

SpecReimb == InitReimb /\ [][NextReimb]_vars

----------------------------------------------------------------------------
(* SpecReprocess: AmazonRepository.reprocess_draft_orders.  rows holds the
   draft Sales Orders, remote the orders as the marketplace has them, bje the
   state of the loop over the drafts *)

\* what a call of _sp_get ends with: the payload of a 200 response, {} (403,
\* or no response after max_retry attempts), or the exception of a hard error
SpGetResults == {"payload", "empty", "HTTPError"}

\* an order as the marketplace has it; exists = FALSE: it lists no such order
MarketOrders ==
    {[exists |-> TRUE, FulfillmentChannel |-> ch, OrderStatus |-> st] :
        ch \in {"AFN", "MFN"},
        st \in {"Shipped", "Pending", "Canceled", "Unfulfillable"}}
    \cup {[exists |-> FALSE, FulfillmentChannel |-> "", OrderStatus |-> ""]}

\* the draft Sales Orders older than age_days with an amazon_order_id
DraftOrders == <<[name |-> "SO-1", amazon_order_id |-> "O1", state |-> "draft"],
                 [name |-> "SO-2", amazon_order_id |-> "O2", state |-> "draft"]>>

\* what _sp_get returns for GET /orders/v0/orders?AmazonOrderIds=order_id
orders_payload(result, order_id) ==
    IF result = "payload"
    THEN [empty |-> FALSE,
          Orders |-> IF remote[order_id].exists THEN <<remote[order_id]>> ELSE <<>>]
    ELSE [empty |-> TRUE, Orders |-> <<>>]

\* _fetch_order_by_id: the first order of the payload, or None
fetch_order_by_id(result, order_id) ==
    LET data == orders_payload(result, order_id)
    IN IF data.empty \/ data.Orders = <<>> THEN [none |-> TRUE, order |-> remote[order_id]]
       ELSE [none |-> FALSE, order |-> data.Orders[1]]

\* the body of the loop for draft d.  listed, fetched: how the two calls of
\* _sp_get end; ready: create_sales_order finds the order ready to submit
reprocess_draft(d, listed, fetched, ready) ==
    LET order_payload == orders_payload(listed, d.amazon_order_id)
    IN IF order_payload.empty \/ order_payload.Orders = <<>>
       THEN [d EXCEPT !.state = "deleted"]
       ELSE LET res == fetch_order_by_id(fetched, d.amazon_order_id)
            IN IF res.none THEN d
               ELSE IF res.order.FulfillmentChannel # "AFN" THEN d
               ELSE IF res.order.OrderStatus \in {"Unfulfillable", "Canceled"}
               THEN [d EXCEPT !.state = "deleted"]
               ELSE IF res.order.OrderStatus \notin {"Shipped", "InvoiceUnconfirmed"} THEN d
               ELSE [d EXCEPT !.state = IF ready THEN "submitted" ELSE "draft"]

InitReprocess ==
    /\ rows = DraftOrders
    /\ remote \in [Orders -> MarketOrders]
    /\ bje = [pc |-> "idle", idx |-> 0, log |-> <<>>]
    /\ rate = RateOne
    /\ invoices = <<>>
    /\ jes = <<>>
    /\ queue = {}
    /\ runs = [w \in Workers |-> IdleRun]
    /\ starts = 0
    /\ retry = IdleRetry
    /\ fx_call = IdleFx

\* reprocess_draft_orders is called: the drafts are read
ReprocessStart ==
    /\ bje.pc = "idle"
    /\ bje' = [bje EXCEPT !.pc = "loop", !.idx = 1]
    /\ UNCHANGED <<rows, rate, remote, invoices, jes, queue, runs, starts, retry, fx_call>>

\* one iteration of `for d in drafts`; an exception of _sp_get leaves the
\* function.  The log keeps how the calls of the iteration ended.
ReprocessDraft ==
    /\ bje.pc = "loop"
    /\ bje.idx <= Len(rows)
    /\ \E listed \in SpGetResults, fetched \in SpGetResults, ready \in BOOLEAN :
         LET d == rows[bje.idx]
             reached == ~orders_payload(listed, d.amazon_order_id).empty
                        /\ orders_payload(listed, d.amazon_order_id).Orders # <<>>
         IN IF listed = "HTTPError" \/ (reached /\ fetched = "HTTPError")
            THEN /\ bje' = [bje EXCEPT !.pc = "raised"]
                 /\ UNCHANGED rows
            ELSE /\ rows' = [rows EXCEPT ![bje.idx] = reprocess_draft(d, listed, fetched, ready)]
                 /\ bje' = [bje EXCEPT !.idx = @ + 1,
                                       !.log = Append(@, [listed |-> listed,
                                                          fetched |-> IF reached THEN fetched
                                                                      ELSE "not called"])]
    /\ UNCHANGED <<rate, remote, invoices, jes, queue, runs, starts, retry, fx_call>>

\* the loop is over
ReprocessDone ==
    /\ bje.pc = "loop"
    /\ bje.idx > Len(rows)
    /\ bje' = [bje EXCEPT !.pc = "done"]
    /\ UNCHANGED <<rows, rate, remote, invoices, jes, queue, runs, starts, retry, fx_call>>

NextReprocess == ReprocessStart \/ ReprocessDraft \/ ReprocessDone

SpecReprocess == InitReprocess /\ [][NextReprocess]_vars

----------------------------------------------------------------------------
(* SpecCallSp: one call of AmazonRepository.call_sp_api_method.  retry holds
   the call, what sp_api_method does at each attempt, and the settings *)

\* the largest max_retry_limit of the model (the settings allow up to 5)
MaxRetryLimit == 3

\* what one call of sp_api_method does: it returns, or raises an exception
\* the loop catches, or another one
MethodOutcomes == {"result", "SPAPIError", "RequestException", "KeyError"}

DisabledMessage ==
    "Scheduled sync has been temporarily disabled because maximum retries have been exceeded!"

\* `for x in range(max_retries)` from attempt x on.  The outcome of the
\* call: what the caller gets, the attempts made, enable_sync after.
RECURSIVE call_sp_api_method(_, _, _, _)
call_sp_api_method(x, max_retries, outs, enable_sync) ==
    IF x >= max_retries
    THEN [pc |-> "raised", result |-> DisabledMessage, attempts |-> x, enable_sync |-> 0]
    ELSE LET out == outs[x + 1]
         IN IF out = "result"
            THEN [pc |-> "returned", result |-> "payload", attempts |-> x + 1,
                  enable_sync |-> enable_sync]
            ELSE IF out \in {"SPAPIError", "RequestException"}
            THEN IF x = max_retries - 1
                 THEN [pc |-> "raised", result |-> out, attempts |-> x + 1,
                       enable_sync |-> enable_sync]
                 ELSE call_sp_api_method(x + 1, max_retries, outs, enable_sync)
            ELSE [pc |-> "raised", result |-> out, attempts |-> x + 1,
                  enable_sync |-> enable_sync]

\* the settings are active with sync enabled and a validated max_retry_limit
InitCallSp ==
    /\ NoPipeline
    /\ fx_call = IdleFx
    /\ \E max_retry_limit \in 1..MaxRetryLimit :
          \E outs \in [1..max_retry_limit -> MethodOutcomes] :
             retry = [pc |-> "call", max_retry_limit |-> max_retry_limit, outs |-> outs,
                      result |-> "", attempts |-> 0, enable_sync |-> 1]

CallSpApiMethod ==
    /\ retry.pc = "call"
    /\ LET res == call_sp_api_method(0, retry.max_retry_limit, retry.outs, retry.enable_sync)
       IN retry' = [retry EXCEPT !.pc = res.pc, !.result = res.result,
                                 !.attempts = res.attempts, !.enable_sync = res.enable_sync]
    /\ UNCHANGED <<ledger_vars, fx_call>>

NextCallSp == CallSpApiMethod

SpecCallSp == InitCallSp /\ [][NextCallSp]_vars

----------------------------------------------------------------------------
(* SpecPrefix: late passes of report R1 beside the posting of report R12 *)

\* the rows of report R12, which settles a part of order O2
RowsR12 ==
    { << Row("transfer", "", "", "", 15000, "USD"),
         Row("order", "O2", "PRINCIPAL", "ItemPrice", 20000, "USD") >>,
      << Row("transfer", "", "", "", 5000, "USD"),
         Row("order", "O2", "PRINCIPAL", "ItemPrice", 20000, "USD"),
         Row("refund", "O2", "PRINCIPAL", "ItemPrice", -10000, "USD") >> }

\* R1 was posted before order O2 had an invoice; R12 was posted after, as a
\* draft or confirmed; up to two credit notes of an earlier report are open
InitPrefix ==
    /\ rows = RowsR1
    /\ rate = RateOne
    /\ \E si \in SaleInvoicesO2, rs \in RowsR12, docstatus \in {0, 1} :
          LET first == build_je(<<>>, "R1", PostDt, RowsR1, RateOne, {}, TRUE)
              other == build_je(<<si>>, "R12", PostDt, rs, RateOne, {}, TRUE)
              ledger == IF docstatus = 1 THEN apply_posting(other.inv, other.lines)
                        ELSE other.inv
          IN /\ jes = <<[cheque_no |-> "R1", docstatus |-> 1, accounts |-> first.lines],
                        [cheque_no |-> "R12", docstatus |-> docstatus,
                         accounts |-> other.lines]>>
             /\ invoices \in {ledger \o extra : extra \in SeqsUpTo(EarlierCreditNotes, 2)}
    /\ bje = [st |-> "pending", lines |-> <<>>, first_pass |-> FALSE]
    /\ remote = [r \in {} |-> <<>>]
    /\ queue = {}
    /\ runs = [w \in Workers |-> IdleRun]
    /\ starts = 0
    /\ retry = IdleRetry
    /\ fx_call = IdleFx

NextPrefix == LatePass

SpecPrefix == InitPrefix /\ [][NextPrefix]_vars

----------------------------------------------------------------------------
(* SpecSubmit: SalesOrderOverride.on_submit run by two workers for orders of
   one customer.  bje holds the Customer row as committed and the holder of
   its row lock, runs what each worker's transaction has read and written *)

\* the submissions made in all
MaxSubmissions == 3

\* mutant: a read sees the uncommitted write of another transaction
visible_terms_uncommitted(w) ==
    IF \E v \in Workers : runs[v].dirty
    THEN runs[CHOOSE v \in Workers : runs[v].dirty].value
    ELSE bje.payment_terms

\* frappe.db.get_value("Customer", customer, "payment_terms") in the
\* transaction of worker w: its own write if it made one, else what is
\* committed
visible_terms(w) == IF runs[w].dirty THEN runs[w].value ELSE bje.payment_terms

InitSubmit ==
    /\ \E terms \in {"Net 30", "None"} :
          bje = [payment_terms |-> terms, initial |-> terms, lock |-> "",
                 overlapped |-> FALSE, failed |-> FALSE]
    /\ runs = [w \in Workers |-> [pc |-> "idle", original |-> "", dirty |-> FALSE,
                                  value |-> ""]]
    /\ starts = 0
    /\ rows = <<>>
    /\ rate = RateOne
    /\ remote = [r \in {} |-> <<>>]
    /\ invoices = <<>>
    /\ jes = <<>>
    /\ queue = {}
    /\ retry = IdleRetry
    /\ fx_call = IdleFx

\* on_submit starts for an order; for an AFN order with an amazon_order_id
\* the invoice is mapped and original_cust_terms is read
ReadTerms(w) ==
    /\ runs[w].pc = "idle"
    /\ starts < MaxSubmissions
    /\ starts' = starts + 1
    /\ \E afn \in BOOLEAN :
         IF afn
         THEN /\ runs' = [runs EXCEPT ![w].pc = "clear", ![w].original = visible_terms(w)]
              /\ bje' = [bje EXCEPT !.overlapped = @ \/ bje.lock \notin {"", w}]
         ELSE UNCHANGED <<runs, bje>>
    /\ UNCHANGED <<rows, rate, remote, invoices, jes, queue, retry, fx_call>>

\* set_value(payment_terms, None): the update takes the row lock; while
\* another transaction holds it the update waits, or gives up with an
\* exception, which leads to the finally block
ClearTerms(w) ==
    /\ runs[w].pc = "clear"
    /\ IF bje.lock \in {"", w}
       THEN /\ runs' = [runs EXCEPT ![w].pc = "insert", ![w].dirty = TRUE,
                                    ![w].value = "None"]
            /\ bje' = [bje EXCEPT !.lock = w]
       ELSE /\ runs' = [runs EXCEPT ![w].pc = "restore"]
            /\ UNCHANGED bje
    /\ UNCHANGED <<rows, rate, remote, invoices, jes, queue, starts, retry, fx_call>>

\* sales_invoice.insert(), which may raise
InsertInvoice(w) ==
    /\ runs[w].pc = "insert"
    /\ \E raises \in BOOLEAN :
         bje' = [bje EXCEPT !.failed = @ \/ raises]
    /\ runs' = [runs EXCEPT ![w].pc = "restore"]
    /\ UNCHANGED <<rows, rate, remote, invoices, jes, queue, starts, retry, fx_call>>

\* the finally block: set_value(payment_terms, original_cust_terms) and
\* commit, which releases the lock.  If another transaction holds the lock
\* and the update gives up, nothing is committed and the transaction of the
\* worker is rolled back.
RestoreTerms(w) ==
    /\ runs[w].pc = "restore"
    /\ IF bje.lock \in {"", w}
       THEN bje' = [bje EXCEPT !.payment_terms = runs[w].original, !.lock = ""]
       ELSE UNCHANGED bje
    /\ runs' = [runs EXCEPT ![w] = [pc |-> "idle", original |-> "", dirty |-> FALSE,
                                    value |-> ""]]
    /\ UNCHANGED <<rows, rate, remote, invoices, jes, queue, starts, retry, fx_call>>

NextSubmit ==
    \/ \E w \in Workers : ReadTerms(w)
    \/ \E w \in Workers : ClearTerms(w)
    \/ \E w \in Workers : InsertInvoice(w)
    \/ \E w \in Workers : RestoreTerms(w)

SpecSubmit == InitSubmit /\ [][NextSubmit]_vars

----------------------------------------------------------------------------
(* Claims about the first-pass posting *)

\* C1: every posting build_je returns on first pass balances in base currency
\* after the rounding line: |sum(debit * rate) - sum(credit * rate)| <= 0.01.
C1_BalancedAfterRounding ==
    bje.st = "built" =>
        Abs(total_debit(bje.lines) - total_credit(bje.lines)) <= CentUnits

\* a posting in a foreign currency that needed a rounding line
C1_Witness ==
    /\ bje.st = "built"
    /\ settlement_ccy(rows) # "USD"
    /\ \E i \in DOMAIN bje.lines : bje.lines[i].account = "round_off"

\* the AR lines of the posting for one order
ARLines(lines, order_id) ==
    {i \in DOMAIN lines : lines[i].account = "debtors" /\ lines[i].order = order_id}

InSeq(x, q) == \E i \in DOMAIN q : q[i] = x

\* C6: an order present in both sales_totals and refund_totals gets an AR
\* credit line of its sales total and a separate AR debit line of its refund
\* total, and no other AR line: the two are never netted into one line.
C6_SalesAndRefundNotNetted ==
    bje.st = "built" =>
        \A o \in Orders :
            (InSeq(o, sales_totals(rows)) /\ InSeq(o, refund_totals(rows))) =>
                /\ Cardinality(ARLines(bje.lines, o)) = 2
                /\ \E i \in ARLines(bje.lines, o) :
                      /\ bje.lines[i].credit = SumAmounts(SelectSeq(rows, LAMBDA r :
                              r.oid = o /\ r.tt \in {"order", "order_retrocharge"}))
                      /\ bje.lines[i].debit = 0
                /\ \E i \in ARLines(bje.lines, o) :
                      /\ bje.lines[i].debit = -SumAmounts(SelectSeq(rows, LAMBDA r :
                              r.oid = o /\ r.tt = "refund"))
                      /\ bje.lines[i].credit = 0

\* order O2 with sales 50.00 and refunds 80.00: a credit line of 50.00 and a debit line of 80.00
C6_Witness ==
    /\ bje.st = "built"
    /\ InSeq("O2", sales_totals(rows)) /\ InSeq("O2", refund_totals(rows))
    /\ \E i, j \in ARLines(bje.lines, "O2") :
          /\ bje.lines[i].credit = 50000 /\ bje.lines[i].debit = 0
          /\ bje.lines[j].debit = 80000 /\ bje.lines[j].credit = 0

----------------------------------------------------------------------------
(* Claims about runs, jobs and late allocation *)

\* C2: at most one posting is created per report id, so no two confirmed
\* postings carry the same report id as cheque_no.
C2_NoTwoConfirmedShareReport ==
    \A i, j \in DOMAIN jes :
        (/\ jes[i].cheque_no = jes[j].cheque_no
         /\ jes[i].docstatus = 1
         /\ jes[j].docstatus = 1) => i = j

\* a run about to build a posting for a report whose first posting is still a draft
C2_Witness ==
    \E w \in Workers :
        /\ runs[w].pc = "build"
        /\ runs[w].first_pass
        /\ \E j \in DOMAIN jes : /\ jes[j].cheque_no = CurrentReport(w)
                                 /\ jes[j].docstatus = 0
                                 /\ j \in queue

\* a run takes the step of build_je that a confirmed posting sends to late allocation
LateStep(w) == runs[w].pc = "build" /\ ~runs[w].first_pass /\ runs'[w] # runs[w]

\* a row whose reference was attached after the first pass: the first pass
\* flags an unreferenced customer credit as advance, or its debit as "No",
\* and builds no referenced row for a document of another report
LateAttached(j, i) ==
    LET row == jes[j].accounts[i]
    IN /\ row.ref # 0
       /\ \/ row.is_advance = "Yes"
          \/ /\ invoices[row.ref].is_return
             /\ invoices[row.ref].report # jes[j].cheque_no

LateTwice(j, cn_self) ==
    LET rid == jes[j].cheque_no
        once == allocate_late_documents_for_settlement(jes, invoices, j, rid, remote[rid],
                    PostDt, {}, {}, cn_self)
        twice == allocate_late_documents_for_settlement(once.js, once.inv, j, rid,
                     remote[rid], PostDt, {}, {}, cn_self)
    IN [once |-> once, twice |-> twice]

C5_TargetReferencedOnce ==
    \A j \in DOMAIN jes :
        \A a, b \in DOMAIN jes[j].accounts :
            (/\ jes[j].accounts[a].ref # 0
             /\ jes[j].accounts[a].ref = jes[j].accounts[b].ref) => a = b

\* a posting with two referenced rows, one of them attached by a late pass
C5_Witness ==
    \E j \in DOMAIN jes :
        \E a, b \in DOMAIN jes[j].accounts :
            /\ a # b
            /\ LateAttached(j, a)
            /\ jes[j].accounts[b].ref # 0

C8_NoDraftLeftAtRest ==
    (queue = {} /\ Active = {}) => \A j \in DOMAIN jes : jes[j].docstatus # 0

C10_NoExceptionLeavesBatch == \A w \in Workers : runs[w].pc # "aborted"

----------------------------------------------------------------------------
(* Claims about the lock-retry wrapper and the exchange rate lookup *)

\* C11: an operation wrapped by _retry_locked is invoked again only after an
\* attempt raised the document-locked error and at most Tries times after the
\* first attempt; a result is returned at once, a lock error of the last
\* attempt propagates, any other exception propagates where it occurs.
C11_RetriesOnlyOnLock ==
    LET log == retry.log
    IN /\ Len(log) <= Tries + 1
       /\ \A i \in 1..(Len(log) - 1) : log[i] = "DocumentLockedError"
       /\ retry.pc = "loop" =>
             /\ Len(log) <= Tries
             /\ \A i \in DOMAIN log : log[i] = "DocumentLockedError"
       /\ retry.pc = "returned" =>
             /\ log # <<>>
             /\ log[Len(log)] \in FnResults
             /\ retry.outcome = log[Len(log)]
       /\ retry.pc = "raised" =>
             /\ log # <<>>
             /\ log[Len(log)] \notin FnResults
             /\ retry.outcome = log[Len(log)]
             /\ retry.outcome = "DocumentLockedError" => Len(log) = Tries + 1

\* every attempt found the document locked: the error leaves after the last one
C11_Witness ==
    /\ retry.pc = "raised"
    /\ retry.outcome = "DocumentLockedError"
    /\ Len(retry.log) = Tries + 1

\* C12: for two different currencies fx_rate returns a rate that the cache,
\* the provider or a manual record gave, never 1.0 or another default; with no
\* cached rate, no rate from the provider and no manual record it raises and
\* returns no value.
C12_NoDefaultRate ==
    fx_call.pc \in {"done", "raised"} /\ fx_call.from_ccy # fx_call.to_ccy =>
        /\ fx_call.pc = "done" =>
              /\ fx_call.source \in {"cache", "provider", "manual"}
              /\ fx_call.rate \in {ProviderRate, ManualRate}
              /\ fx_call.source = "manual" => fx_call.manual
        /\ fx_call.pc = "raised" => fx_call.rate = 0
        /\ fx_call.pc = "raised" <=>
              /\ ~fx_call.manual
              /\ fx_call.source = ""
              /\ fx_call.calls = MaxRetries + FallbackDays * FallbackRetries
              /\ fx_call.cache = {}

\* nothing cached, no rate from the provider on any day, no manual record
C12_Witness ==
    /\ fx_call.pc = "raised"
    /\ fx_call.from_ccy = "CAD"
    /\ fx_call.calls = MaxRetries + FallbackDays * FallbackRetries

\* C13: at most MaxRetries provider calls for the requested date; a prior day
\* is looked at only after them; the manual record is used only when no prior
\* day had a cached or quoted rate; the lookup fails only when the manual
\* record is missing too; the provider is called MaxRetries + FallbackDays
\* times at most.
C13_FallbackChain ==
    fx_call.pc # "idle" =>
        /\ fx_call.calls0 <= MaxRetries
        /\ fx_call.calls <= MaxRetries + FallbackDays * FallbackRetries
        /\ fx_call.deepest >= 1 => fx_call.calls0 = MaxRetries
        /\ fx_call.pc = "manual" \/ fx_call.source = "manual" \/ fx_call.pc = "raised" =>
              /\ fx_call.deepest = FallbackDays
              /\ fx_call.calls = MaxRetries + FallbackDays * FallbackRetries
              /\ fx_call.pc \in {"manual", "raised"} => fx_call.cache = {}
        /\ fx_call.pc = "raised" => ~fx_call.manual

\* the manual record is what the lookup returned, after every day was tried
C13_Witness ==
    /\ fx_call.pc = "done"
    /\ fx_call.source = "manual"
    /\ fx_call.calls = MaxRetries + FallbackDays * FallbackRetries

----------------------------------------------------------------------------
(* Claims about the net transfer row, the order totals and the lines *)

\* a row without order id that matches a net-transfer marker and has an amount
NetRow(r) ==
    /\ r.oid = ""
    /\ r.tt = "transfer" \/ r.desc \in {"AMAZON PROCEEDS", "TRANSFER"} \/ (r.tt = "" /\ r.desc = "")
    /\ Abs(r.amount) > 0

NoNetRow(rs) == \A i \in DOMAIN rs : ~NetRow(rs[i])

\* C14: for a report without net transfer row build_je returns None and
\* leaves the ledger, the postings and the queue as they were, on first pass
\* and on a later pass.
C14_NoNetRowNoEffect ==
    [][bje.st = "pending" /\ NoNetRow(rows) =>
          /\ bje'.st = "none"
          /\ invoices' = invoices
          /\ jes' = jes
          /\ queue' = queue]_vars

\* a later pass over rows with a sale of O1 but no net row, while the
\* confirmed posting has an unreferenced line for O1 and its invoice is open
C14_Witness ==
    /\ bje.st = "none"
    /\ ~bje.first_pass
    /\ NoNetRow(rows)
    /\ InSeq("O1", sales_totals(rows))
    /\ get_open_sales_invoice(invoices, "O1") # 0
    /\ UnreferencedLine(jes[1].accounts, "O1", "credit") # 0

\* the rows of the simple deposit scenario; the fee row is a row outside the
\* orders: a special fee or another fee
Transfer100 == Row("transfer", "", "", "", 100000, "USD")
SaleO1 == Row("order", "O1", "PRINCIPAL", "ItemPrice", 120000, "USD")
FeeRows ==
    { Row("other-transaction", "", "STORAGE FEE", "other-transaction", -20000, "USD"),
      Row("servicefee", "", "TRANSACTIONTOTALAMOUNT", "Cost of Advertising", -20000, "USD") }

SimpleDeposit(rs) ==
    /\ Len(rs) = 3
    /\ \E f \in FeeRows : {rs[i] : i \in DOMAIN rs} = {Transfer100, SaleO1, f}

LinesOf(lines, accounts) == SelectSeq(lines, LAMBDA l : l.account \in accounts)

\* C15: simple deposit: clearing debit 100.00, AR credit 120.00 for O1, fee
\* debit 20.00, and nothing else; debits equal credits.
C15_SimpleDeposit ==
    bje.st # "pending" /\ bje.first_pass /\ SimpleDeposit(rows) =>
        /\ bje.st = "built"
        /\ Len(bje.lines) = 3
        /\ \E l \in {LinesOf(bje.lines, {"clearing"})} :
              Len(l) = 1 /\ l[1].debit = 100000 /\ l[1].credit = 0
        /\ \E l \in {LinesOf(bje.lines, {"debtors"})} :
              Len(l) = 1 /\ l[1].credit = 120000 /\ l[1].debit = 0 /\ l[1].order = "O1"
        /\ \E l \in {LinesOf(bje.lines, {"fee", "misc_fees"})} :
              Len(l) = 1 /\ l[1].debit = 20000 /\ l[1].credit = 0
        /\ total_debit(bje.lines) = total_credit(bje.lines)

\* the scenario with a fee row that is no special fee
C15_Witness ==
    /\ bje.st = "built"
    /\ SimpleDeposit(rows)
    /\ LinesOf(bje.lines, {"misc_fees"}) # <<>>

\* the signed sum of the rows of an order whose type is in the set types
TypeSum(rs, order_id, types) ==
    SumAmounts(SelectSeq(rs, LAMBDA r : r.oid = order_id /\ r.tt \in types))

\* C16: sales_totals[order] is the signed sum of the order's SALES_TYPES rows,
\* refund_totals[order] the negated sum of its REFUND_TYPES rows; an order is
\* a key exactly when the absolute value is at least 0.01; the AR lines of
\* the posting carry these values.
C16_TotalsPerOrder ==
    \A o \in Orders :
        /\ InSeq(o, sales_totals(rows)) <=> Abs(TypeSum(rows, o, SALES_TYPES)) >= NoiseThreshold
        /\ InSeq(o, refund_totals(rows)) <=> Abs(TypeSum(rows, o, REFUND_TYPES)) >= NoiseThreshold
        /\ sales_total(rows, o) = TypeSum(rows, o, SALES_TYPES)
        /\ refund_total(rows, o) = -TypeSum(rows, o, REFUND_TYPES)
        /\ bje.st = "built" =>
              /\ InSeq(o, sales_totals(rows)) <=>
                    \E i \in DOMAIN bje.lines :
                        /\ bje.lines[i].account = "debtors" /\ bje.lines[i].order = o
                        /\ bje.lines[i].debit = 0
                        /\ bje.lines[i].credit = TypeSum(rows, o, SALES_TYPES)
              /\ InSeq(o, refund_totals(rows)) <=>
                    \E i \in DOMAIN bje.lines :
                        /\ bje.lines[i].account = "debtors" /\ bje.lines[i].order = o
                        /\ bje.lines[i].credit = 0
                        /\ bje.lines[i].debit = -TypeSum(rows, o, REFUND_TYPES)

\* a posting for a report in which one order is dropped as noise and another
\* has a refund total
C16_Witness ==
    /\ bje.st = "built"
    /\ TypeSum(rows, "O1", SALES_TYPES) # 0
    /\ ~InSeq("O1", sales_totals(rows))
    /\ InSeq("O2", refund_totals(rows))

\* C17: every value of sales_totals and of refund_totals is strictly
\* positive, and so is the amount of every AR line.
C17_TotalsPositive ==
    /\ \A o \in Orders :
          /\ InSeq(o, sales_totals(rows)) => sales_total(rows, o) > 0
          /\ InSeq(o, refund_totals(rows)) => refund_total(rows, o) > 0
    /\ bje.st = "built" =>
          \A i \in DOMAIN bje.lines :
              bje.lines[i].account = "debtors" =>
                  /\ bje.lines[i].debit >= 0
                  /\ bje.lines[i].credit >= 0
                  /\ bje.lines[i].debit + bje.lines[i].credit > 0

\* the place of a line in the order the claim states: clearing, sales AR,
\* refund AR, reimbursement, special fees, miscellaneous fees, rounding
RankAsStated(l) ==
    CASE l.account = "clearing" -> 1
      [] l.account = "debtors" /\ l.debit = 0 -> 2
      [] l.account = "debtors" /\ l.debit # 0 -> 3
      [] l.account = "reimbursements" -> 4
      [] l.account = "fee" -> 5
      [] l.account = "misc_fees" -> 6
      [] l.account = "round_off" -> 7

\* the place of a line in the document build_je returns: the lines without
\* party first (clearing, reimbursement, special fees, miscellaneous fees,
\* rounding), then the sales AR lines, then the refund AR lines
RankAsBuilt(l) ==
    CASE l.account = "clearing" -> 1
      [] l.account = "reimbursements" -> 2
      [] l.account = "fee" -> 3
      [] l.account = "misc_fees" -> 4
      [] l.account = "round_off" -> 5
      [] l.account = "debtors" /\ l.debit = 0 -> 6
      [] l.account = "debtors" /\ l.debit # 0 -> 7

\* C18 as stated: the lines appear as clearing, sales AR, refund AR,
\* reimbursement, special fees, miscellaneous fees, rounding.
C18_OrderAsStated ==
    bje.st = "built" =>
        \A i, j \in DOMAIN bje.lines :
            i < j => RankAsStated(bje.lines[i]) <= RankAsStated(bje.lines[j])

\* C18 amended: the lines appear as clearing, reimbursement, special fees,
\* miscellaneous fees, rounding, then the sales AR lines, then the refund AR
\* lines; one clearing line comes first.
C18_OrderAsBuilt ==
    bje.st = "built" =>
        /\ bje.lines[1].account = "clearing"
        /\ \A i, j \in DOMAIN bje.lines :
              i < j => RankAsBuilt(bje.lines[i]) <= RankAsBuilt(bje.lines[j])

\* a posting with a fee line, a rounding line, a sales and a refund AR line
C18_Witness ==
    /\ bje.st = "built"
    /\ \E i, j, k \in DOMAIN bje.lines :
          /\ bje.lines[i].account \in {"fee", "misc_fees", "reimbursements"}
          /\ bje.lines[j].account = "debtors" /\ bje.lines[j].debit = 0
          /\ bje.lines[k].account = "debtors" /\ bje.lines[k].debit # 0

\* the submitted invoices of the order with outstanding amount > 0
OpenInvoices(inv, order_id) ==
    {n \in Names(inv) : /\ inv[n].order = order_id
                        /\ inv[n].docstatus = 1
                        /\ ~inv[n].is_return
                        /\ inv[n].outstanding > 0}

\* C19: a sales AR line of a first-pass posting references only a submitted
\* open invoice of its order, and has no reference exactly when the order has
\* no open invoice.
C19_SalesLineReferencesOpenInvoice ==
    bje.st = "built" =>
        \A i \in DOMAIN bje.lines :
            bje.lines[i].account = "debtors" /\ bje.lines[i].debit = 0 =>
                /\ bje.lines[i].ref # 0 =>
                      bje.lines[i].ref \in OpenInvoices(invoices, bje.lines[i].order)
                /\ bje.lines[i].ref = 0 <=> OpenInvoices(invoices, bje.lines[i].order) = {}

\* C20: after _flag_unallocated_as_advance a row is flagged as advance
\* exactly when it has a party, has no reference, and is a Customer row with
\* credit > 0 or a Supplier row with debit > 0; every other row is not.
C20_AdvanceOnlyLegalPolarity ==
    bje.st = "flagged" =>
        \A i \in DOMAIN bje.lines :
            LET row == bje.lines[i]
                legal == /\ row.party_type # "" /\ row.party # ""
                         /\ row.ref = 0
                         /\ \/ row.party_type = "Customer" /\ row.credit > 0
                            \/ row.party_type = "Supplier" /\ row.debit > 0
            IN /\ row.is_advance \in {"", "No", "Yes"}
               /\ row.is_advance = "Yes" <=> legal

\* a supplier debit without reference, flagged as advance
C20_Witness ==
    /\ bje.st = "flagged"
    /\ bje.lines[1].party_type = "Supplier"
    /\ bje.lines[1].debit > 0
    /\ bje.lines[1].is_advance = "Yes"

\* the same line but for the name of the document it references
SameButRef(l, m) == [l EXCEPT !.ref = 0] = [m EXCEPT !.ref = 0]

\* the documents two lines reference are both absent or the same record
SameDocument(l, inv_l, m, inv_m) ==
    IF l.ref = 0 \/ m.ref = 0 THEN l.ref = m.ref ELSE inv_l[l.ref] = inv_m[m.ref]

\* the orders of the rows whose credit note creation is attempted
CreditNoteAttempted(inv, rs) ==
    {o \in Orders : /\ InSeq(o, refund_totals(rs))
                    /\ get_sales_invoice(inv, o) # 0
                    /\ SelectSeq(order_groups(rs, o), LAMBDA r : r.tt \in REFUND_TYPES) # <<>>}

\* C21: if credit note creation raises for some orders while the posting is
\* built, build_je still returns a posting with the AR lines of every order:
\* the failing order's refund line is there with its amount and without a
\* document reference, and every other line is the line built when nothing
\* fails (a credit note referenced there is the same record).
C21_CreditNoteFailureIsLocal ==
    [][bje.st = "pending" /\ bje'.st = "built" =>
          \A excCN \in SUBSET Orders, cn_self \in BOOLEAN :
              LET res == build_je(invoices, "R1", PostDt, rows, rate, excCN, cn_self)
                  ok == build_je(invoices, "R1", PostDt, rows, rate, {}, cn_self)
              IN bje'.lines = res.lines /\ invoices' = res.inv =>
                    /\ Len(res.lines) = Len(ok.lines)
                    /\ \A o \in Orders :
                          /\ InSeq(o, sales_totals(rows)) =>
                                \E i \in ARLines(res.lines, o) :
                                    /\ res.lines[i].credit = sales_total(rows, o)
                                    /\ res.lines[i].debit = 0
                          /\ InSeq(o, refund_totals(rows)) =>
                                \E i \in ARLines(res.lines, o) :
                                    /\ res.lines[i].debit = refund_total(rows, o)
                                    /\ res.lines[i].credit = 0
                    /\ \A i \in DOMAIN res.lines :
                          LET l == res.lines[i]
                              m == ok.lines[i]
                              failing == /\ l.account = "debtors" /\ l.debit # 0
                                         /\ l.order \in excCN
                                         /\ l.order \in CreditNoteAttempted(invoices, rows)
                          IN /\ l.account = m.account /\ l.order = m.order
                             /\ l.debit = m.debit /\ l.credit = m.credit
                             /\ failing => l.ref = 0
                             /\ ~failing => /\ SameButRef(l, m)
                                            /\ SameDocument(l, res.inv, m, ok.inv)]_vars

\* a posting built while the credit note creation for O2 raised and the one
\* for O1 succeeded: O2's refund line has no reference although O2 has an
\* invoice whose items match, O1's refund line references a credit note
C21_Witness ==
    /\ bje.st = "built"
    /\ get_sales_invoice(invoices, "O2") # 0
    /\ invoices[get_sales_invoice(invoices, "O2")].items_match
    /\ \E i \in ARLines(bje.lines, "O2") : bje.lines[i].debit > 0 /\ bje.lines[i].ref = 0
    /\ \E i \in ARLines(bje.lines, "O1") :
          /\ bje.lines[i].debit # 0
          /\ bje.lines[i].ref # 0
          /\ invoices[bje.lines[i].ref].is_return

\* the submitted credit notes against one sale invoice for one report
CreditNotesOf(inv, si_name, report_id) ==
    {n \in Names(inv) : /\ inv[n].is_return /\ inv[n].docstatus = 1
                        /\ inv[n].return_against = si_name
                        /\ inv[n].report = report_id}

\* the refund rows of a report for one order
RefundRowsOf(rpt_id, order_id) ==
    SelectSeq(order_groups(remote[rpt_id], order_id), LAMBDA r : r.tt \in REFUND_TYPES)

\* the postings, inserted or built and not yet inserted, with a line that
\* references document n
PostingsReferencing(n) ==
    {<<"je", j>> : j \in {k \in DOMAIN jes : \E i \in DOMAIN jes[k].accounts :
                                                jes[k].accounts[i].ref = n}}
    \cup {<<"run", w>> : w \in {v \in Workers : \E i \in DOMAIN runs[v].je :
                                                    runs[v].je[i].ref = n}}

\* C22: whatever calls of create_credit_note_for_refund the runs have made,
\* at most one submitted credit note exists per (sale invoice, report id),
\* and a call for a pair that has one creates nothing and returns its name.
C22_OneCreditNotePerInvoiceAndReport ==
    \A si_name \in Names(invoices), rpt_id \in DOMAIN remote :
        LET cns == CreditNotesOf(invoices, si_name, rpt_id) IN
        /\ Cardinality(cns) <= 1
        /\ \A n \in cns, cn_self \in BOOLEAN :
              RefundRowsOf(rpt_id, invoices[n].order) # <<>> =>
                  create_credit_note_for_refund(invoices, si_name, PostDt, invoices[n].order,
                      RefundRowsOf(rpt_id, invoices[n].order), rpt_id, FALSE, cn_self)
                  = [name |-> n, inv |-> invoices]

\* a credit note of report R1 that two postings reference: the call of the
\* second build found it and returned its name
C22_Witness ==
    \E n \in Names(invoices) :
        /\ invoices[n].is_return /\ invoices[n].report = "R1"
        /\ Cardinality(PostingsReferencing(n)) >= 2

\* the posting of report R1 in SpecLate
LatePosting == 1

\* sum of the debit (side = "debit") or credit amounts of the rows of the
\* posting for the order that carry a reference
RECURSIVE ReferencedSide(_, _, _)
ReferencedSide(accounts, order_id, side) ==
    IF accounts = <<>> THEN 0
    ELSE (IF Head(accounts).order = order_id /\ Head(accounts).ref # 0
          THEN (IF side = "debit" THEN Head(accounts).debit ELSE Head(accounts).credit)
          ELSE 0)
         + ReferencedSide(Tail(accounts), order_id, side)

\* a late pass in which no call raises takes the step
CleanLatePass(cn_self) ==
    LET res == build_je_later_pass(jes, invoices, LatePosting, "R1", PostDt, rows,
                                   {}, {}, cn_self)
    IN starts' = starts + 1 /\ jes' = res.js /\ invoices' = res.inv

\* the step attaches document c to a row of the order that had no reference
NewlyReferenced(order_id, c) ==
    \E i \in DOMAIN jes[LatePosting].accounts :
        /\ jes[LatePosting].accounts[i].order = order_id
        /\ jes[LatePosting].accounts[i].ref = 0
        /\ jes'[LatePosting].accounts[i].ref = c

\* the credit note of report R1 for the order after the step, 0 if none
ReportCreditNote(order_id) ==
    IF get_sales_invoice(invoices', order_id) = 0 THEN 0
    ELSE ExistingCreditNote(invoices', get_sales_invoice(invoices', order_id), order_id, "R1")

\* the order's other open credit notes the report does not reference, oldest first
OtherOpenCreditNotes(order_id) ==
    SelectSeq(get_open_credit_notes_for_order(invoices', order_id),
              LAMBDA d : /\ d # ReportCreditNote(order_id)
                         /\ ~is_already_referenced_by_report(jes, invoices', "R1", d))

\* C23: in a late pass, when the order's unapplied refund remainder is only
\* partly covered by the credit note of this report, the rest is allocated
\* to the order's other open credit notes, oldest first: the oldest of them
\* is referenced by a debit row of the order after the pass.
C23_RestGoesToOtherCreditNotes ==
    [][\A cn_self \in BOOLEAN : CleanLatePass(cn_self) =>
          \A o \in Orders :
              LET cn == ReportCreditNote(o)
                  remainder == refund_total(rows, o)
                               - ReferencedSide(jes[LatePosting].accounts, o, "debit")
                  rest == remainder - Min(remainder, Abs(invoices'[cn].outstanding))
              IN /\ InSeq(o, refund_totals(rows))
                 /\ cn # 0
                 /\ NewlyReferenced(o, cn)
                 /\ rest >= NoiseThreshold
                 /\ OtherOpenCreditNotes(o) # <<>>
                 => \E i \in DOMAIN jes'[LatePosting].accounts :
                       /\ jes'[LatePosting].accounts[i].order = o
                       /\ jes'[LatePosting].accounts[i].debit > 0
                       /\ jes'[LatePosting].accounts[i].ref = Head(OtherOpenCreditNotes(o))]_vars

\* the order's open credit notes after the step that the report did not
\* reference before it
OpenCandidates(order_id) ==
    {d \in Names(invoices') : /\ invoices'[d].order = order_id
                              /\ invoices'[d].is_return
                              /\ invoices'[d].docstatus = 1
                              /\ invoices'[d].outstanding < -NoiseThreshold
                              /\ ~is_already_referenced_by_report(jes, invoices', "R1", d)}

C25_AppliedPerPolarity ==
    \A o \in Orders :
        LET accounts == jes[LatePosting].accounts IN
        /\ InSeq(o, sales_totals(rows)) =>
              /\ already_applied_sales(accounts, o) = ReferencedSide(accounts, o, "credit")
              /\ sales_total(rows, o) - already_applied_sales(accounts, o)
                    <= sales_total(rows, o)
        /\ InSeq(o, refund_totals(rows)) =>
              /\ already_applied_refunds(accounts, o) = ReferencedSide(accounts, o, "debit")
              /\ refund_total(rows, o) - already_applied_refunds(accounts, o)
                    <= refund_total(rows, o)

\* the finalize job takes posting j, a draft, off the queue
FinalizeStep(j) ==
    /\ j \in queue /\ j \notin queue'
    /\ j \in DOMAIN jes /\ jes[j].docstatus = 0

\* the rows that are not the rounding row of the finalize job
NotFinalizeRounding(accounts) ==
    SelectSeq(accounts, LAMBDA l : ~(l.account = "round_off" /\ l.user_remark = FinalizeRemark))

SpaceSpelling(h) == HeaderKey[h] \in {"amount type", "amount description"}

\* the two csv rows differ in nothing but space against hyphen in the names
\* of the amount type and amount description columns
SpaceAgainstHyphen ==
    /\ DOMAIN rows[1] # DOMAIN rows[2]
    /\ \A h \in DOMAIN rows[1] \cup DOMAIN rows[2] :
          h \in {"amount type", "amount-type", "amount description", "amount-description",
                 "amount", "total-amount"}

\* C27: two rows that differ only in "amount type" / "amount description"
\* against "amount-type" / "amount-description" in the header are normalized
\* to the identical row: same keys, same cell values, same numeric amount,
\* whatever the cells hold (surrounding blanks, the amount text "1,234.56").
C27_HeaderVariantsSameRow ==
    bje.st = "normalized" /\ SpaceAgainstHyphen =>
        /\ DOMAIN bje.lines[1] = DOMAIN bje.lines[2]
        /\ \A k \in DOMAIN bje.lines[1] : bje.lines[1][k] = bje.lines[2][k]

\* a row of a posting with the document it references in place of its name
RowByDocument(l, inv) ==
    [l EXCEPT !.ref = IF l.ref = 0 THEN <<>>
                      ELSE <<inv[l.ref].order, inv[l.ref].is_return, inv[l.ref].report>>]

RowsByDocument(accounts, inv) == [i \in DOMAIN accounts |-> RowByDocument(accounts[i], inv)]

\* the credit notes of a report in a ledger, without their names
CreditNotesOfReport(inv, rpt_id) ==
    {<<inv[n].order, inv[n].posting_date>> :
        n \in {k \in Names(inv) : inv[k].is_return /\ inv[k].report = rpt_id}}

\* what the run yields for the report when it is the only one of the batch
ProcessedAlone(rpt_id) == build_je(OrderLedger, rpt_id, PostDt, remote[rpt_id], rate, {}, TRUE)

\* C28: the posting of a report, the documents its rows reference and its
\* credit notes are those the report yields when no other report of the
\* batch was processed before it, also when both reports have rows of the
\* same order or invoice: processing in either order gives the same result.
C28_ReportsCommute ==
    \A j \in DOMAIN jes :
        LET alone == ProcessedAlone(jes[j].cheque_no)
        IN /\ RowsByDocument(NotFinalizeRounding(jes[j].accounts), invoices)
                = RowsByDocument(alone.lines, alone.inv)
           /\ CreditNotesOfReport(invoices, jes[j].cheque_no)
                = CreditNotesOfReport(alone.inv, jes[j].cheque_no)

\* the answers _sp_get is said to retry on
SaidRetried(out) == out.network_error \/ out.status \in RetryStatuses

\* what the call has done so far agrees with the dispatch as stated
SpGetAsStated ==
    LET h == retry.history
        n == Len(h)
    IN /\ n <= retry.max_retry
       /\ \A i \in 1..(n - 1) : SaidRetried(h[i])
       /\ n > 0 =>
             LET last == h[n] IN
             /\ SaidRetried(last) =>
                   \/ retry.pc = "loop" /\ (n < retry.max_retry \/ retry.result = "")
                   \/ retry.pc = "returned" /\ retry.result = "empty" /\ n = retry.max_retry
             /\ ~last.network_error /\ last.status = 200 =>
                   retry.pc = "returned" /\ retry.result = "payload"
             /\ ~last.network_error /\ last.status = 403 =>
                   retry.pc = "returned" /\ retry.result = "empty"
             /\ ~SaidRetried(last) /\ last.status \notin {200, 403} => retry.pc = "raised"
       /\ retry.pc = "raised" => n > 0 /\ ~SaidRetried(h[n]) /\ h[n].status \notin {200, 403}

\* C29: _sp_get makes at most max_retry HTTP requests and always terminates:
\* after a 429/500/502/503/504 or a network error it makes another attempt,
\* a 403 returns an empty result at once, any other answer that is not 200
\* raises at once, and with all attempts used up it returns an empty result
\* and does not raise.
C29_SpGetAsStated == []SpGetAsStated /\ <>(retry.pc \in {"returned", "raised"})

\* the reports of the listing the call may return: all of them, or with
\* after_date those whose settlement end date passes
Eligible == {i \in DOMAIN rows : ~bje.after_date \/ rows[i].end_ok}

\* C30: list_latest_settlement_reports returns at most limit reports, in
\* descending order of dataEndTime, the first being a report with the latest
\* data end time of those it may return, also when the creation times order
\* the reports differently.
C30_LatestDataEndFirst ==
    bje.st = "listed" =>
        /\ Len(bje.lines) <= bje.limit
        /\ \A i, j \in DOMAIN bje.lines :
              i < j => bje.lines[i].dataEndTime >= bje.lines[j].dataEndTime
        /\ bje.lines # <<>> =>
              \A i \in Eligible : bje.lines[1].dataEndTime >= rows[i].dataEndTime

----------------------------------------------------------------------------
(* Claims about the finalize job run again *)

\* C31: the finalize job run for a posting that is submitted, cancelled or
\* missing changes nothing: the postings (rows and status) and the ledger
\* stay as they were.
C31_NonDraftUntouched ==
    [][\A j \in queue :
          /\ j \notin queue'
          /\ (j \notin DOMAIN jes \/ jes[j].docstatus # 0)
          => jes' = jes /\ invoices' = invoices]_vars

\* the job ran a second time, on the posting its first run had submitted or
\* on the cancelled posting
C31_Witness ==
    /\ starts >= 1
    /\ queue = {}
    /\ jes # <<>>
    /\ jes[1].docstatus = 2

\* the rounding rows of the finalize job in a posting
FinalizeRounding(accounts) ==
    SelectSeq(accounts, LAMBDA l : l.account = "round_off" /\ l.user_remark = FinalizeRemark)

\* C32: however often the finalize job runs for a posting, saved rounding
\* row or not, the posting has at most one rounding row of the job, and its
\* amount is the imbalance of the other rows, on the side that balances them.
C32_OneRoundingRow ==
    \A j \in DOMAIN jes :
        LET accounts == jes[j].accounts
            others == NotFinalizeRounding(accounts)
            difference == base_total_debit(others) - base_total_credit(others)
            rounding == FinalizeRounding(accounts)
        IN /\ Len(rounding) <= 1
           /\ Len(rounding) = 1 =>
                 /\ Abs(difference) * RateOne >= Threshold
                 /\ rounding[1].credit = (IF difference > 0 THEN difference ELSE 0)
                 /\ rounding[1].debit = (IF difference > 0 THEN 0 ELSE -difference)

\* the job has run at least twice for a posting that stands submitted with
\* its rounding row
C32_Witness ==
    /\ starts >= 1
    /\ queue = {}
    /\ jes[1].docstatus = 1
    /\ Len(FinalizeRounding(jes[1].accounts)) = 1

----------------------------------------------------------------------------
(* Claims about the rows of a posting after late passes *)

\* C33: in every state of a posting, after the first pass and after any
\* number of late passes, no row that carries a document reference is
\* flagged as an advance.
C33_NoReferencedAdvance ==
    \A j \in DOMAIN jes : \A i \in DOMAIN jes[j].accounts :
        jes[j].accounts[i].ref # 0 => jes[j].accounts[i].is_advance # "Yes"

----------------------------------------------------------------------------
(* Claims about the reimbursement total *)

\* a row that qualifies as reimbursement in one of the three ways
QualifiesAsReimbursement(r) ==
    \/ r.desc \in REIMBURSEMENT_WHITE_LIST
    \/ r.desc \in ContainsReimbursement
    \/ r.atype \in ContainsReimbursement

\* the sum of the positive amounts of the qualifying rows
PositiveReimbursements(rs) ==
    SumAmounts(SelectSeq(rs, LAMBDA r : QualifiesAsReimbursement(r) /\ r.amount > 0))

\* C34: the reimbursement total of a report is the sum of the positive
\* amounts of its qualifying rows, whichever way a row qualifies, and the
\* reimbursement row of the posting books that total.
C34_OnlyPositiveReimbursements ==
    bje.st = "built" =>
        /\ reimb_native(rows) = PositiveReimbursements(rows)
        /\ LinesOf(bje.lines, {"reimbursements"}) =
              (LET usd == Round2(PositiveReimbursements(rows)
                                 * FxRate(settlement_ccy(rows), rate))
               IN IF usd >= NoiseThreshold
                  THEN <<Line("reimbursements", 0, usd, RateOne, "", "", 0, "")>>
                  ELSE <<>>)

----------------------------------------------------------------------------
(* Claims about reprocess_draft_orders *)

\* C35: reprocess_draft_orders deletes a draft only if the marketplace
\* reports its order as Canceled or Unfulfillable or has no such order; a
\* draft whose lookup came back empty (network failure, retries exhausted,
\* 403) is kept.
C35_NoDeleteOnTransientMiss ==
    \A i \in DOMAIN bje.log :
        /\ rows[i].state = "deleted" =>
              \/ ~remote[rows[i].amazon_order_id].exists
              \/ remote[rows[i].amazon_order_id].OrderStatus \in {"Canceled", "Unfulfillable"}
        /\ "empty" \in {bje.log[i].listed, bje.log[i].fetched} => rows[i].state # "deleted"

----------------------------------------------------------------------------
(* Claims about call_sp_api_method *)

\* every attempt of the call failed with an exception the loop catches
EveryAttemptFailed ==
    \A x \in DOMAIN retry.outs : retry.outs[x] \in {"SPAPIError", "RequestException"}

\* C36: when every attempt of call_sp_api_method fails, the call ends after
\* max_retry_limit attempts with enable_sync set to 0 and with the error
\* that scheduled sync has been disabled.
C36_SyncDisabledAfterRetries ==
    retry.pc # "call" /\ EveryAttemptFailed =>
        /\ retry.attempts = retry.max_retry_limit
        /\ retry.enable_sync = 0
        /\ retry.pc = "raised"
        /\ retry.result = DisabledMessage

----------------------------------------------------------------------------
(* Claims about what a late pass changes *)

\* C37: a late pass changes nothing in a confirmed posting but the reference
\* of rows that had none: no row is added or removed, every row keeps its
\* account, amounts, party and exchange rate, a reference a row had is kept,
\* and the status and both totals of the posting are unchanged.
C37_LatePassOnlyAttaches ==
    [][/\ DOMAIN jes' = DOMAIN jes
       /\ \A j \in DOMAIN jes :
            /\ jes'[j].docstatus = jes[j].docstatus
            /\ jes'[j].cheque_no = jes[j].cheque_no
            /\ DOMAIN jes'[j].accounts = DOMAIN jes[j].accounts
            /\ \A i \in DOMAIN jes[j].accounts :
                 /\ SameButRef(jes[j].accounts[i], jes'[j].accounts[i])
                 /\ jes[j].accounts[i].ref # 0 =>
                       jes'[j].accounts[i].ref = jes[j].accounts[i].ref
            /\ total_debit(jes'[j].accounts) = total_debit(jes[j].accounts)
            /\ total_credit(jes'[j].accounts) = total_credit(jes[j].accounts)]_vars

\* a late pass has attached a document to a row the first pass had flagged
\* as an advance
C37_Witness ==
    /\ starts >= 1
    /\ \E i \in DOMAIN jes[LatePosting].accounts :
         /\ jes[LatePosting].accounts[i].ref # 0
         /\ jes[LatePosting].accounts[i].is_advance = "Yes"

----------------------------------------------------------------------------
(* Claims about is_already_referenced_by_report *)

\* C38: after a late pass of report R1, is_already_referenced_by_report(R1,
\* document) is true only for a document that a confirmed posting of R1
\* itself references; the posting of R12 never makes it true.
C38_OnlyOwnReport ==
    starts >= 1 =>
        \A n \in Names(invoices) :
            is_already_referenced_by_report(jes, invoices, "R1", n) =>
                \E j \in ConfirmedFor(jes, "R1") : \E i \in DOMAIN jes[j].accounts :
                    jes[j].accounts[i].ref = n

----------------------------------------------------------------------------
(* Claims about SalesOrderOverride.on_submit *)

\* C39: whenever no submission is under way, the customer's payment_terms
\* is what it was before the first submission began, however the
\* submissions of the two workers interleaved and whether or not an insert
\* failed.
C39_TermsRestored ==
    (\A w \in Workers : runs[w].pc = "idle") => bje.payment_terms = bje.initial

\* all submissions are over; one began while the other worker held the row
\* with the terms cleared, and an insert failed
C39_Witness ==
    /\ \A w \in Workers : runs[w].pc = "idle"
    /\ starts = MaxSubmissions
    /\ bje.initial = "Net 30"
    /\ bje.overlapped
    /\ bje.failed

----------------------------------------------------------------------------
(* Claims about the balance of the rows before rounding *)

\* every amount of the report is a whole number of cents
WholeCents(rs) == \A i \in DOMAIN rs : rs[i].amount % 10 = 0

\* the rounding row build_je appends
BuildRounding(lines) ==
    SelectSeq(lines, LAMBDA l : l.account = "round_off" /\ l.user_remark = "Rounding adjustment")

\* C40: for a report settled in the base currency whose amounts are whole
\* cents, the rows of the posting balance exactly without a rounding row, and
\* build_je adds none.
C40_BalancedWithoutRounding ==
    bje.st = "built" /\ settlement_ccy(rows) = "USD" /\ WholeCents(rows) =>
        /\ BuildRounding(bje.lines) = <<>>
        /\ total_debit(bje.lines) = total_credit(bje.lines)

\* a posting in the base currency with sales, a refund and a fee row
C40_Witness ==
    /\ bje.st = "built"
    /\ settlement_ccy(rows) = "USD"
    /\ WholeCents(rows)
    /\ LinesOf(bje.lines, {"misc_fees"}) # <<>>
    /\ Len(LinesOf(bje.lines, {"debtors"})) >= 2

====
